---- MODULE Spec2Model ----
(***************************************************************************)
(* Drawing comparison pipeline of MeeraPatel2703/cad.                      *)
(*                                                                         *)
(* Comparator (backend/app/agents/comparator.py): run_comparator is        *)
(* modelled as a state machine whose steps are the phases of the function  *)
(* (Phase 1 loop, LLM fallback, value/tolerance overlay, GD&T diff,        *)
(* missing relabel, BOM diff + sort + summary).                            *)
(*                                                                         *)
(* Adversarial review (backend/app/agents/review_agent.py): run_review is  *)
(* modelled as three rounds followed by the fallback chain and the         *)
(* server-side deduplication.                                              *)
(*                                                                         *)
(* Numbers: dimension values and tolerances are exact decimals with at     *)
(* most three fractional digits, held as integers in thousandths (25.0 is  *)
(* 25000).  Comparisons that the code makes on floats are made here on     *)
(* the exact rationals.  Strings are sequences of one-character strings,   *)
(* so that lower(), strip() and the substring test are computed.           *)
(***************************************************************************)
EXTENDS Integers, Sequences, FiniteSets, TLC

VARIABLES
    master_dims,          \* master_ms["dimensions"]
    check_dims,           \* check_ms["dimensions"]
    pc,                   \* position inside run_comparator
    i,                    \* Phase-1 loop index (0-based, as enumerate() gives it)
    used_check_indices,   \* set of 0-based check indices taken by Phase 1
    unmatched_master,     \* sequence of (balloon_num, master index) left for Phase 2
    llm_status,           \* outcome of the Phase-2 LLM call
    matched_master,       \* matched_master of _llm_match_dimensions
    comparisons,          \* the comparison items
    gdt_issues,           \* result of _compare_gdt_symbols
    bom_mismatches,       \* second result of _compare_part_lists
    summary,              \* summary dict of the returned state
    master_gdt,           \* master_ms["gdt_callouts"], as read by Phase 2.6
    check_gdt,            \* check_ms["gdt_callouts"], as read by Phase 2.6
    master_parts,         \* master_ms["part_list"], as read by Phase 4
    check_parts,          \* check_ms["part_list"], as read by Phase 4
    rpc,                  \* position inside run_review
    claude_result,        \* parsed result of round 1 (or NoneR)
    gemini_result,        \* parsed result of round 2 (or NoneR)
    gemini_raw,           \* raw text of round 2: "text", "error" or "" (empty)
    merge_result,         \* parsed result of round 3 (or NoneR)
    final_result,         \* result dict returned by run_review
    img_dims,             \* <<mw, mh, cw, ch>>: pixel sizes of the two drawings
    tess,                 \* Tesseract detections of _refine_regions_with_ocr, per drawing
    ing_pc,               \* position inside run_ingestor
    attempt,              \* loop variable of the retry loop of run_ingestor
    outcomes,             \* outcome of each generate_content_async call so far
    sleeps,               \* seconds of each asyncio.sleep of the retry loop so far
    response,             \* response.text, as a sequence of tokens
    extracted,            \* the dict parsed from the response
    is_rescan,            \* crop_region is not None
    machine_state,        \* state["machine_state"]: before the run, then as returned
    node,                 \* node of the compiled graph that is running
    ingestion,            \* comparison graph: what became of each drawing's ingestion
    reflexion_count,      \* state["reflexion_count"]
    crop_region,          \* state["crop_region"] is not None
    findings,             \* state["findings"], as the set of their kinds
    agent_log,            \* state["agent_log"], the action of each entry
    bind_pc,              \* phase of run_ingestor's work on one dimension
    bound_dim,            \* the dimension dict the phases work on
    img_size,             \* img_size of _load_images
    actual_size,          \* img.size of the file opened by phase 3b, <<0, 0>>: not loadable
    state_dim             \* the dimension as it stands in the returned machine_state

vars == <<master_dims, check_dims, pc, i, used_check_indices, unmatched_master,
          llm_status, matched_master, comparisons, gdt_issues, bom_mismatches, summary,
          master_gdt, check_gdt, master_parts, check_parts,
          rpc, claude_result, gemini_result, gemini_raw, merge_result, final_result,
          img_dims, tess,
          ing_pc, attempt, outcomes, sleeps, response, extracted, is_rescan, machine_state,
          node, ingestion, reflexion_count, crop_region, findings, agent_log,
          bind_pc, bound_dim, img_size, actual_size, state_dim>>

cmpVars == <<master_dims, check_dims, pc, i, used_check_indices, unmatched_master,
             llm_status, matched_master, comparisons, gdt_issues, bom_mismatches, summary,
             master_gdt, check_gdt, master_parts, check_parts>>

revVars == <<rpc, claude_result, gemini_result, gemini_raw, merge_result, final_result,
             img_dims, tess>>

\* what run_review reads from the two files and never changes
revEnv == <<img_dims, tess>>

ingVars == <<ing_pc, attempt, outcomes, sleeps, response, extracted, is_rescan, machine_state>>

\* the graph state of graph.py and comparison_graph.py
graphVars == <<node, ingestion, reflexion_count, crop_region, findings, agent_log>>

\* one dimension on its way through phases 3 to 3f of run_ingestor
bindVars == <<bind_pc, bound_dim, img_size, actual_size, state_dim>>

(***************************************************************************)
(* Bounds                                                                  *)
(***************************************************************************)
MaxDims == 2
MaxMatches == 2
MaxItems == 2

(***************************************************************************)
(* Program constants                                                       *)
(***************************************************************************)
\* TOLERANCE_THRESHOLD = 0.01, in thousandths
TOLERANCE_THRESHOLD == 10
DECIMAL_PLACE_THRESHOLD == 10
\* the matcher's acceptance floor (best_score >= 2)
MIN_MATCH_SCORE == 2

\* Python None for an optional number
NULL == -99999999

(***************************************************************************)
(* Strings                                                                 *)
(***************************************************************************)
LowerChar(c) ==
    CASE c = "A" -> "a"
      [] c = "B" -> "b"
      [] c = "D" -> "d"
      [] c = "G" -> "g"
      [] c = "H" -> "h"
      [] c = "R" -> "r"
      [] c = "S" -> "s"
      [] OTHER -> c

Lower(s) == [k \in 1..Len(s) |-> LowerChar(s[k])]

RECURSIVE LStrip(_)
LStrip(s) == IF s # <<>> /\ Head(s) = " " THEN LStrip(Tail(s)) ELSE s

RECURSIVE RStrip(_)
RStrip(s) ==
    IF s # <<>> /\ s[Len(s)] = " " THEN RStrip(SubSeq(s, 1, Len(s) - 1)) ELSE s

Strip(s) == RStrip(LStrip(s))

\* Python "a in b" on strings
IsSubstring(a, b) ==
    \E k \in 0..(Len(b) - Len(a)) : SubSeq(b, k + 1, k + Len(a)) = a

Abs(x) == IF x < 0 THEN -x ELSE x
Max2(a, b) == IF a >= b THEN a ELSE b
Min2(a, b) == IF a <= b THEN a ELSE b

(***************************************************************************)
(* comparator.py helpers                                                   *)
(***************************************************************************)
\* _to_float on the values a MachineState carries (float or None)
ToFloat(val) == IF val = NULL THEN NULL ELSE val

\* Python "x or 0" / "x if x is not None else 0" on an optional float
OrZero(x) == IF x = NULL THEN 0 ELSE x

\* Python "a or b" on optional floats: a unless it is None or 0.0
PyOr(a, b) == IF a = NULL \/ a = 0 THEN b ELSE a

\* the scoring body of the loop of _find_best_match
FeatureScore(m, c) ==
    LET mf == Lower(m.feature_type)
        cf == Lower(c.feature_type)
    IN IF mf # <<>> /\ cf # <<>>
       THEN IF mf = cf THEN 6
            ELSE IF IsSubstring(mf, cf) \/ IsSubstring(cf, mf) THEN 4 ELSE 0
       ELSE 0

ValueScore(m, c) ==
    LET m_val == OrZero(ToFloat(m.value))
        c_val == OrZero(ToFloat(c.value))
        d     == Abs(m_val - c_val)
        den   == Max2(Abs(m_val), 1)      \* max(abs(m_val), 0.001)
    IN IF m_val # 0 /\ c_val # 0
       THEN IF d * 100 < den THEN 3
            ELSE IF d * 10 < den THEN 2
            ELSE IF d * 10 < 3 * den THEN 1 ELSE 0
       ELSE 0

CoordX(coords) == IF coords = <<>> THEN -1 ELSE coords[1]
CoordY(coords) == IF coords = <<>> THEN -1 ELSE coords[2]

CoordScore(m, c) ==
    LET mx == CoordX(m.coordinates)
        my == CoordY(m.coordinates)
        cx == CoordX(c.coordinates)
        cy == CoordY(c.coordinates)
        d2 == (mx - cx) * (mx - cx) + (my - cy) * (my - cy)
    IN IF mx >= 0 /\ cx >= 0
       THEN IF d2 < 100 * 100 THEN 3
            ELSE IF d2 < 250 * 250 THEN 2
            ELSE IF d2 < 400 * 400 THEN 1 ELSE 0
       ELSE 0

ClassScore(m, c) ==
    LET m_tc == Strip(m.tolerance_class)
        c_tc == Strip(c.tolerance_class)
    IN IF m_tc # <<>> /\ c_tc # <<>>
       THEN IF m_tc = c_tc THEN 2
            ELSE IF Lower(m_tc) = Lower(c_tc) THEN 1 ELSE 0
       ELSE 0

OcrPenalty(c, score) ==
    IF c.ocr_verified = "False" THEN Max2(0, score - 2) ELSE score

ValidationPenalty(c, score) ==
    IF c.validation_failed THEN Max2(0, score - 2) ELSE score

Score(m, c) ==
    LET base == FeatureScore(m, c)
                + (IF m.zone # <<>> /\ c.zone = m.zone THEN 3 ELSE 0)
                + (IF m.item_number # <<>> /\ c.item_number = m.item_number THEN 3 ELSE 0)
                + ValueScore(m, c)
                + CoordScore(m, c)
                + ClassScore(m, c)
                + (IF m.unit = c.unit THEN 1 ELSE 0)
    IN ValidationPenalty(c, OcrPenalty(c, base))

\* the for loop of _find_best_match: k is the 0-based index being scanned
RECURSIVE ScanBest(_, _, _, _, _, _)
ScanBest(m, cds, used, k, best_idx, best_score) ==
    IF k >= Len(cds) THEN [idx |-> best_idx, score |-> best_score]
    ELSE IF k \in used THEN ScanBest(m, cds, used, k + 1, best_idx, best_score)
    ELSE LET s == Score(m, cds[k + 1])
         IN IF s > best_score
            THEN ScanBest(m, cds, used, k + 1, k, s)
            ELSE ScanBest(m, cds, used, k + 1, best_idx, best_score)

\* a matcher that keeps the last scanned of the top-scoring candidates
FindBestMatchLastWins(m, cds, used) ==
    LET free == {k \in 0..(Len(cds) - 1) : k \notin used}
        top == {k \in free : \A o \in free : Score(m, cds[o + 1]) <= Score(m, cds[k + 1])}
    IN IF top # {} /\ (\E k \in top : Score(m, cds[k + 1]) >= MIN_MATCH_SCORE)
       THEN CHOOSE k \in top : \A o \in top : o <= k
       ELSE NULL

\* _find_best_match: the 0-based index of the match, or NULL for None
FindBestMatch(m, cds, used) ==
    LET r == ScanBest(m, cds, used, 0, NULL, -1)
    IN IF r.idx # NULL /\ r.score >= MIN_MATCH_SCORE THEN r.idx ELSE NULL

(***************************************************************************)
(* Per-pair evaluation                                                     *)
(***************************************************************************)
\* _evaluate_tolerance: (status, deviation)
EvaluateTolerance(m, c) ==
    LET nominal == OrZero(ToFloat(PyOr(m.nominal, m.value)))
        upper   == OrZero(ToFloat(m.upper_tol))
        lower   == OrZero(ToFloat(m.lower_tol))
        actual  == OrZero(ToFloat(c.value))
        dev     == actual - nominal
        adev    == Abs(dev)
        anom    == Abs(nominal)
        tol_range == Max2(Abs(upper), Abs(lower))
    IN IF nominal = 0 THEN [status |-> "pending", deviation |-> NULL]
       ELSE IF upper = 0 /\ lower = 0
       THEN IF adev < 1 THEN [status |-> "pass", deviation |-> dev]            \* abs(deviation) < 0.001
            ELSE IF adev * 100 < anom THEN [status |-> "pass", deviation |-> dev]      \* pct_change < 0.01
            ELSE IF adev * 100 < 5 * anom THEN [status |-> "warning", deviation |-> dev]  \* pct_change < 0.05
            ELSE [status |-> "deviation", deviation |-> dev]
       ELSE IF lower <= dev /\ dev <= upper THEN [status |-> "pass", deviation |-> dev]
       ELSE IF tol_range > 0 /\ adev * 10 <= tol_range * 12                    \* abs(deviation) <= tol_range * 1.2
            THEN [status |-> "warning", deviation |-> dev]
       ELSE IF adev * 10 > anom THEN [status |-> "deviation", deviation |-> dev]  \* pct_change > 0.10
       ELSE [status |-> "fail", deviation |-> dev]

\* the tolerance-class mismatch test of _build_comparison
ClassMismatch(m, c) ==
    LET m_tol_class == Strip(m.tolerance_class)
        c_tol_class == Strip(c.tolerance_class)
    IN m_tol_class # <<>> /\ c_tol_class # <<>> /\ m_tol_class # c_tol_class

\* _build_comparison with check_dim = None
BuildComparisonNone(balloon_num, midx, m) ==
    [balloon_number |-> balloon_num,
     zone |-> m.zone,
     master_nominal |-> PyOr(ToFloat(m.nominal), ToFloat(m.value)),
     master_upper_tol |-> ToFloat(m.upper_tol),
     master_lower_tol |-> ToFloat(m.lower_tol),
     master_tolerance_class |-> m.tolerance_class,
     check_actual |-> NULL,
     deviation |-> NULL,
     status |-> "not_found",
     master_coordinates |-> m.coordinates,
     check_coordinates |-> <<>>,
     notes |-> "No matching dimension found in check drawing",
     issue |-> "",
     tolerance_issue |-> "",
     requires_manual_review |-> FALSE,
     master_idx |-> midx,
     check_idx |-> NULL]

\* _build_comparison with a matched check dimension
BuildComparison(balloon_num, midx, m, cidx, c) ==
    LET ev == EvaluateTolerance(m, c)
        mismatch == ClassMismatch(m, c)
        validation == m.validation_failed \/ c.validation_failed
        status == IF mismatch /\ ev.status = "pass" THEN "warning" ELSE ev.status
        notes == IF mismatch THEN "Tolerance class changed"
                 ELSE IF m.ocr_verified = "False" \/ c.ocr_verified = "False"
                      THEN "OCR could not verify value in image"
                 ELSE IF validation THEN "Possible letter-number confusion in extraction"
                 ELSE ""
    IN [balloon_number |-> balloon_num,
        zone |-> m.zone,
        master_nominal |-> PyOr(ToFloat(m.nominal), ToFloat(m.value)),
        master_upper_tol |-> ToFloat(m.upper_tol),
        master_lower_tol |-> ToFloat(m.lower_tol),
        master_tolerance_class |-> m.tolerance_class,
        check_actual |-> ToFloat(c.value),
        deviation |-> ev.deviation,
        status |-> status,
        master_coordinates |-> m.coordinates,
        check_coordinates |-> c.coordinates,
        notes |-> notes,
        issue |-> "",
        tolerance_issue |-> "",
        requires_manual_review |-> (validation \/ mismatch),
        master_idx |-> midx,
        check_idx |-> cidx]

\* _compare_dimension_values (both arguments are non-None at the only call)
CompareDimensionValues(master_val, check_val) ==
    LET difference == Abs(master_val - check_val)
        min_val == Min2(Abs(master_val), Abs(check_val))
        max_val == Max2(Abs(master_val), Abs(check_val))
        \* percent_diff > 5, percent_diff = difference / master_val * 100 (0 if master_val = 0)
        over5 == master_val > 0 /\ difference * 100 > 5 * master_val
    IN IF difference < TOLERANCE_THRESHOLD
       THEN [status |-> "pass", issue |-> "", description |-> ""]
       ELSE IF min_val > 0 /\ max_val >= DECIMAL_PLACE_THRESHOLD * min_val
       THEN [status |-> "fail", issue |-> "modified_value",
             description |-> "Decimal place error"]
       ELSE [status |-> IF over5 THEN "fail" ELSE "warning",
             issue |-> "modified_value", description |-> "Value modified"]

\* _compare_tolerances; status "none" stands for the None result
CompareTolerances(master_tol, check_tol) ==
    LET master_upper == ToFloat(master_tol.upper_tol)
        master_lower == ToFloat(master_tol.lower_tol)
        check_upper  == ToFloat(check_tol.upper_tol)
        check_lower  == ToFloat(check_tol.lower_tol)
    IN IF master_upper # NULL \/ master_lower # NULL
       THEN IF check_upper = NULL /\ check_lower = NULL
            THEN [status |-> "fail", issue |-> "missing_tolerance",
                  description |-> "Tolerance missing in check"]
            ELSE IF master_upper # check_upper \/ master_lower # check_lower
            THEN [status |-> "warning", issue |-> "modified_value",
                  description |-> "Tolerance modified"]
            ELSE [status |-> "none", issue |-> "", description |-> ""]
       ELSE [status |-> "none", issue |-> "", description |-> ""]

\* the coordinate lookup of Phase 2.5: tolerances of the first check
\* dimension whose coordinates equal the item's check_coordinates
RECURSIVE CheckTolByCoords(_, _, _)
CheckTolByCoords(check_coords, cds, k) ==
    IF check_coords = <<>> \/ k > Len(cds)
    THEN [upper_tol |-> NULL, lower_tol |-> NULL]
    ELSE IF cds[k].coordinates # <<>> /\ cds[k].coordinates = check_coords
    THEN [upper_tol |-> cds[k].upper_tol, lower_tol |-> cds[k].lower_tol]
    ELSE CheckTolByCoords(check_coords, cds, k + 1)

\* Phase 2.5 value overlay that only ever upgrades a pass
ValueOverlayPassOnly(comp) ==
    IF comp.master_nominal # NULL /\ comp.check_actual # NULL
    THEN LET vr == CompareDimensionValues(comp.master_nominal, comp.check_actual)
         IN IF vr.issue # ""
            THEN [comp EXCEPT !.issue = vr.issue,
                              !.notes = vr.description,
                              !.status = IF comp.status = "pass"
                                         THEN vr.status ELSE comp.status]
            ELSE comp
    ELSE comp

\* value overlay of Phase 2.5 on one item
ValueOverlay(comp) ==
    IF comp.master_nominal # NULL /\ comp.check_actual # NULL
    THEN LET vr == CompareDimensionValues(comp.master_nominal, comp.check_actual)
         IN IF vr.issue # ""
            THEN [comp EXCEPT !.issue = vr.issue,
                              !.notes = vr.description,
                              !.status = IF vr.status = "fail" \/ comp.status = "pass"
                                         THEN vr.status ELSE comp.status]
            ELSE comp
    ELSE comp

\* tolerance overlay of Phase 2.5 on one item
ToleranceOverlay(comp, cds) ==
    LET master_tol_dim == [upper_tol |-> comp.master_upper_tol,
                           lower_tol |-> comp.master_lower_tol]
        check_tol_dim == CheckTolByCoords(comp.check_coordinates, cds, 1)
        tol_result == CompareTolerances(master_tol_dim, check_tol_dim)
    IN IF tol_result.status # "none"
       THEN [comp EXCEPT !.tolerance_issue = tol_result.issue,
                         !.status = IF comp.status = "pass"
                                    THEN tol_result.status ELSE comp.status,
                         !.notes = tol_result.description]
       ELSE comp

\* the body of the Phase 2.5 loop
Phase25Item(comp, cds) ==
    IF comp.status = "not_found" THEN comp
    ELSE ToleranceOverlay(ValueOverlay(comp), cds)

(***************************************************************************)
(* Phase 2: LLM fallback                                                   *)
(***************************************************************************)
\* Python list indexing with a 0-based, possibly negative index
PyIndex(seq, k) == IF k >= 0 THEN seq[k + 1] ELSE seq[Len(seq) + k + 1]

\* seq[k] raises IndexError
PyIndexRaises(seq, k) == k >= Len(seq) \/ k < -Len(seq)

\* remaining_check of run_comparator: the 0-based indices of the check
\* dimensions Phase 1 left unused, in list order
RECURSIVE RemainingCheck(_, _, _)
RemainingCheck(n, used, k) ==
    IF k >= n THEN <<>>
    ELSE IF k \in used THEN RemainingCheck(n, used, k + 1)
    ELSE <<k>> \o RemainingCheck(n, used, k + 1)

\* the acceptance test of one LLM match in _llm_match_dimensions
MatchAccepted(mt, unmatched, remaining) ==
    /\ mt.master_index # NULL
    /\ mt.check_index # NULL
    /\ mt.confidence >= 5                      \* conf >= 0.5, in tenths
    /\ mt.master_index < Len(unmatched)
    /\ mt.check_index < Len(remaining)

\* an accepted match indexes outside the list: unmatched[mi] or
\* remaining_check[ci] raises IndexError out of run_comparator
MatchRaises(mt, unmatched, remaining) ==
    /\ MatchAccepted(mt, unmatched, remaining)
    /\ \/ PyIndexRaises(unmatched, mt.master_index)
       \/ PyIndexRaises(remaining, mt.check_index)

\* the "for m in matches" loop: comparison items of the accepted matches
RECURSIVE LlmMatchedItems(_, _, _, _, _)
LlmMatchedItems(mts, unmatched, remaining, mds, cds) ==
    IF mts = <<>> THEN <<>>
    ELSE LET mt == Head(mts)
             rest == LlmMatchedItems(Tail(mts), unmatched, remaining, mds, cds)
         IN IF MatchAccepted(mt, unmatched, remaining)
            THEN LET um == PyIndex(unmatched, mt.master_index)
                     ci == PyIndex(remaining, mt.check_index)
                 IN <<BuildComparison(um.balloon_num, um.midx, mds[um.midx + 1],
                                      ci, cds[ci + 1])>> \o rest
            ELSE rest

\* matched_master: the raw master_index values of the accepted matches
MatchedMaster(mts, unmatched, remaining) ==
    {mts[k].master_index : k \in {j \in 1..Len(mts) :
                                      MatchAccepted(mts[j], unmatched, remaining)}}

\* the "mark truly unmatched as not_found" loop
RECURSIVE LlmNotFoundItems(_, _, _, _)
LlmNotFoundItems(unmatched, mm, mds, k) ==
    IF k >= Len(unmatched) THEN <<>>
    ELSE LET um == unmatched[k + 1]
             rest == LlmNotFoundItems(unmatched, mm, mds, k + 1)
         IN IF k \notin mm
            THEN <<BuildComparisonNone(um.balloon_num, um.midx, mds[um.midx + 1])>> \o rest
            ELSE rest

\* _llm_match_dimensions after the LLM call returned `matches`
LlmMatchDimensions(mts, unmatched, remaining, mds, cds) ==
    LlmMatchedItems(mts, unmatched, remaining, mds, cds)
    \o LlmNotFoundItems(unmatched, MatchedMaster(mts, unmatched, remaining), mds, 0)

(***************************************************************************)
(* GD&T diff                                                               *)
(***************************************************************************)
\* _compare_gdt_symbols
RECURSIVE CompareGdtSymbols(_, _)
CompareGdtSymbols(m_gdt, c_gdt) ==
    IF m_gdt = <<>> THEN <<>>
    ELSE LET ms == Head(m_gdt)
             keys == {<<c_gdt[k].grid_ref, c_gdt[k].symbol>> : k \in 1..Len(c_gdt)}
             rest == CompareGdtSymbols(Tail(m_gdt), c_gdt)
         IN IF <<ms.grid_ref, ms.symbol>> \in keys THEN rest
            ELSE IF ms.symbol = "parallel" /\ <<ms.grid_ref, "perpendicular">> \in keys
            THEN <<[status |-> "fail", issue |-> "symbol_mismatch"]>> \o rest
            ELSE IF ms.symbol = "perpendicular" /\ <<ms.grid_ref, "parallel">> \in keys
            THEN <<[status |-> "fail", issue |-> "symbol_mismatch"]>> \o rest
            ELSE <<[status |-> "warning", issue |-> "missing_dimension"]>> \o rest

\* max((c["balloon_number"] for c in comparisons), default=0)
RECURSIVE MaxBalloon(_)
MaxBalloon(comps) ==
    IF comps = <<>> THEN 0
    ELSE Max2(Head(comps).balloon_number, MaxBalloon(Tail(comps)))

\* an item that is not a dimension pair (GD&T or BOM row)
ExtraItem(balloon, zone, status, issue, notes) ==
    [balloon_number |-> balloon,
     zone |-> zone,
     master_nominal |-> NULL,
     master_upper_tol |-> NULL,
     master_lower_tol |-> NULL,
     master_tolerance_class |-> <<>>,
     check_actual |-> NULL,
     deviation |-> NULL,
     status |-> status,
     master_coordinates |-> <<>>,
     check_coordinates |-> <<>>,
     notes |-> notes,
     issue |-> issue,
     tolerance_issue |-> "",
     requires_manual_review |-> FALSE,
     master_idx |-> NULL,
     check_idx |-> NULL]

\* the items Phase 2.6 appends for the GD&T issues
GdtItems(issues, gdt_balloon_start) ==
    [k \in 1..Len(issues) |->
        ExtraItem(gdt_balloon_start + (k - 1), <<"G", "D", "&", "T">>,
                  issues[k].status, issues[k].issue, "GD&T symbol issue")]

(***************************************************************************)
(* Phase 3: missing dimensions                                             *)
(***************************************************************************)
\* Phase 3 that leaves the not_found items as they are
FindMissingDimensionsKeep(comps) == comps

\* _find_missing_dimensions relabels, in place, every not_found item
FindMissingDimensions(comps) ==
    [k \in 1..Len(comps) |->
        IF comps[k].status = "not_found"
        THEN [comps[k] EXCEPT !.status = "missing",
                              !.notes = "found in master but missing from check drawing"]
        ELSE comps[k]]

(***************************************************************************)
(* Phase 4: BOM diff                                                       *)
(***************************************************************************)
\* check_by_item[item_num] = part on an insertion-ordered dict, held as a
\* sequence of <<key, part>> entries
DictSet(d, key, part) ==
    IF \E k \in 1..Len(d) : d[k][1] = key
    THEN [k \in 1..Len(d) |-> IF d[k][1] = key THEN <<key, part>> ELSE d[k]]
    ELSE Append(d, <<key, part>>)

DictHas(d, key) == \E k \in 1..Len(d) : d[k][1] = key

DictGet(d, key) == d[CHOOSE k \in 1..Len(d) : d[k][1] = key][2]

\* the dict without `key` (the effect of pop on the dict)
RECURSIVE DictDel(_, _)
DictDel(d, key) ==
    IF d = <<>> THEN <<>>
    ELSE IF Head(d)[1] = key THEN Tail(d)
    ELSE <<Head(d)>> \o DictDel(Tail(d), key)

\* the indexing loop of _compare_part_lists
RECURSIVE CheckByItem(_, _)
CheckByItem(c_parts, d) ==
    IF c_parts = <<>> THEN d
    ELSE LET part == Head(c_parts)
             item_num == Strip(part.item_number)
         IN CheckByItem(Tail(c_parts),
                        IF item_num # <<>> THEN DictSet(d, item_num, part) ELSE d)

\* the per-field diff of a part present in both lists is non-empty
PartDiffers(m_part, c_part) ==
    \/ Lower(Strip(m_part.description)) # Lower(Strip(c_part.description))
    \/ Lower(Strip(m_part.material)) # Lower(Strip(c_part.material))
    \/ /\ m_part.quantity # NULL
       /\ c_part.quantity # NULL
       /\ m_part.quantity # c_part.quantity

\* the master loop of _compare_part_lists; acc = [comps, d, balloon]
RECURSIVE MasterPartsLoop(_, _)
MasterPartsLoop(m_parts, acc) ==
    IF m_parts = <<>> THEN acc
    ELSE LET m_part == Head(m_parts)
             m_item == Strip(m_part.item_number)
             rest == Tail(m_parts)
         IN IF m_item = <<>> THEN MasterPartsLoop(rest, acc)
            ELSE IF ~DictHas(acc.d, m_item)
            THEN MasterPartsLoop(rest,
                    [comps |-> Append(acc.comps,
                                  ExtraItem(acc.balloon, <<"B", "O", "M">>, "missing", "",
                                            "present in master but missing from check")),
                     d |-> acc.d,
                     balloon |-> acc.balloon + 1])
            ELSE LET c_part == DictGet(acc.d, m_item)
                     d2 == DictDel(acc.d, m_item)
                 IN IF PartDiffers(m_part, c_part)
                    THEN MasterPartsLoop(rest,
                            [comps |-> Append(acc.comps,
                                          ExtraItem(acc.balloon, <<"B", "O", "M">>, "fail", "",
                                                    "BOM mismatch")),
                             d |-> d2,
                             balloon |-> acc.balloon + 1])
                    ELSE MasterPartsLoop(rest, [acc EXCEPT !.d = d2])

\* the loop over the check parts left in the dict (extra items)
ExtraPartItems(d, balloon) ==
    [k \in 1..Len(d) |->
        ExtraItem(balloon + (k - 1), <<"B", "O", "M">>, "warning", "",
                  "found in check but not in master")]

\* _compare_part_lists: the comparison items (bom_mismatches has one entry
\* per item, so its length is the length of the result)
ComparePartLists(m_parts, c_parts, next_balloon) ==
    LET acc == MasterPartsLoop(m_parts,
                   [comps |-> <<>>, d |-> CheckByItem(c_parts, <<>>),
                    balloon |-> next_balloon])
    IN acc.comps \o ExtraPartItems(acc.d, acc.balloon)

(***************************************************************************)
(* Sort and summary                                                        *)
(***************************************************************************)
\* insertion of an item behind every item whose key is not larger (stable)
RECURSIVE InsertByBalloon(_, _)
InsertByBalloon(sorted, item) ==
    IF sorted = <<>> THEN <<item>>
    ELSE IF Head(sorted).balloon_number <= item.balloon_number
    THEN <<Head(sorted)>> \o InsertByBalloon(Tail(sorted), item)
    ELSE <<item>> \o sorted

\* comparisons.sort(key=lambda c: c["balloon_number"]) (a stable sort)
RECURSIVE SortByBalloon(_)
SortByBalloon(comps) ==
    IF comps = <<>> THEN <<>>
    ELSE InsertByBalloon(SortByBalloon(SubSeq(comps, 1, Len(comps) - 1)),
                         comps[Len(comps)])

CountStatus(comps, st) == Cardinality({k \in 1..Len(comps) : comps[k].status = st})

\* round(x, 1) of x = 100 * num / den, in tenths (round half to even)
RoundTenths(num, den) ==
    LET q == (num * 1000) \div den
        r == (num * 1000) % den
    IN IF 2 * r > den THEN q + 1
       ELSE IF 2 * r < den THEN q
       ELSE IF q % 2 = 0 THEN q ELSE q + 1

\* the summary dict; score is held in tenths (100.0 is 1000)
Summary(comps, n_bom, n_gdt) ==
    LET pass_count == CountStatus(comps, "pass")
        deviation_count == CountStatus(comps, "deviation")
        missing_count == CountStatus(comps, "missing")
        total == Len(comps)
        matched == total - missing_count
    IN [total_dimensions |-> total,
        pass |-> pass_count,
        fail |-> CountStatus(comps, "fail"),
        warning |-> CountStatus(comps, "warning"),
        deviation |-> deviation_count,
        missing |-> missing_count,
        bom_mismatches |-> n_bom,
        gdt_issues |-> n_gdt,
        score |-> IF matched > 0
                  THEN RoundTenths(pass_count + deviation_count, Max2(matched, 1))
                  ELSE 0]

(***************************************************************************)
(* Inputs of run_comparator                                                *)
(***************************************************************************)
S_DIA == <<"d", "i", "a">>
S_BORE_DIA == <<"b", "o", "r", "e", "_", "d", "i", "a">>
S_LEN == <<"l", "e", "n">>
S_H7 == <<"H", "7">>
S_h7 == <<"h", "7">>
S_g6 == <<"g", "6">>
S_MM == <<"m", "m">>

\* a Dimension as the ingestor hands it over: coordinates are always
\* present (pixels), nominal / item_number / zone are unset here
Dim(value, upper, lower, tc, ft, coords, ocr) ==
    [value |-> value, nominal |-> NULL, upper_tol |-> upper, lower_tol |-> lower,
     tolerance_class |-> tc, feature_type |-> ft, zone |-> <<>>,
     item_number |-> <<>>, coordinates |-> coords, unit |-> S_MM,
     ocr_verified |-> ocr, validation_failed |-> FALSE]

P0 == <<0, 0>>
PFar == <<1000, 0>>

\* dimensions of the master drawing in the general specification
MasterDimSet ==
    { Dim(25000, NULL, NULL, <<>>, S_DIA, P0, "None"),
      Dim(25000, 100, -100, S_H7, S_DIA, P0, "None"),
      Dim(50000, NULL, NULL, <<>>, S_LEN, PFar, "None") }

\* dimensions of the check drawing: the last one failed OCR verification
CheckDimSet ==
    { Dim(25000, NULL, NULL, <<>>, S_DIA, P0, "None"),
      Dim(25000, 100, -100, S_H7, S_DIA, P0, "None"),
      Dim(30000, NULL, NULL, <<>>, S_BORE_DIA, PFar, "False") }

\* all sequences over S of length 0..n
RECURSIVE SeqsUpTo(_, _)
SeqsUpTo(S, n) ==
    IF n = 0 THEN {<<>>}
    ELSE LET shorter == SeqsUpTo(S, n - 1)
         IN shorter \cup {Append(q, x) : q \in {r \in shorter : Len(r) = n - 1}, x \in S}

GdtCallout(grid_ref, symbol) == [grid_ref |-> grid_ref, symbol |-> symbol]

\* pairs <<master gdt_callouts, check gdt_callouts>>
GdtInputs ==
    { <<(<<>>), (<<>>)>>,
      <<(<<GdtCallout("A1", "parallel")>>), (<<GdtCallout("A1", "perpendicular")>>)>>,
      <<(<<GdtCallout("A1", "parallel"), GdtCallout("B2", "flatness")>>),
        (<<GdtCallout("A1", "parallel")>>)>> }

Part(item_number, description, material, quantity) ==
    [item_number |-> item_number, description |-> description,
     material |-> material, quantity |-> quantity]

P_SHAFT == Part(<<"1">>, <<"S", "h", "a", "f", "t">>, <<"S", "t">>, 1)
P_SHAFT2 == Part(<<"1", " ">>, <<"s", "h", "a", "f", "t">>, <<"S", "t">>, 2)
P_BUSH == Part(<<"2">>, <<"B", "u", "s", "h">>, <<>>, NULL)
P_SHAFT_LC == Part(<<"1">>, <<"s", "h", "a", "f", "t">>, <<"S", "t">>, 1)

\* pairs <<master part_list, check part_list>>
BomInputs ==
    { <<(<<>>), (<<>>)>>,
      <<(<<P_SHAFT>>), (<<P_SHAFT2>>)>>,
      <<(<<P_SHAFT, P_BUSH>>), (<<P_SHAFT>>)>>,
      <<(<<P_BUSH>>), (<<P_BUSH, P_SHAFT>>)>>,
      <<(<<P_SHAFT>>), (<<P_SHAFT_LC>>)>>,
      <<(<<P_SHAFT, P_SHAFT>>), (<<P_SHAFT>>)>> }

\* answers of the Phase-2 LLM: a list of matches; indices range over
\* valid, negative and out-of-range values, confidence is in tenths
MasterIdxRange(n) == {-(n + 1), -1, 0, n}
CheckIdxRange(n) == {-1, n}

MatchSet(u, r) ==
    {[master_index |-> mi, check_index |-> 0, confidence |-> 5] : mi \in MasterIdxRange(u)}
    \cup {[master_index |-> 0, check_index |-> ci, confidence |-> 5] : ci \in CheckIdxRange(r)}
    \cup {[master_index |-> 0, check_index |-> 0, confidence |-> 4],
          [master_index |-> NULL, check_index |-> 0, confidence |-> 9]}

(***************************************************************************)
(* run_comparator                                                          *)
(***************************************************************************)
EmptySummary ==
    [total_dimensions |-> 0, pass |-> 0, fail |-> 0, warning |-> 0, deviation |-> 0,
     missing |-> 0, bom_mismatches |-> 0, gdt_issues |-> 0, score |-> 0]

\* state at the entry of run_comparator for the given machine states
CmpStart(mds, cds) ==
    /\ master_dims = mds
    /\ check_dims = cds
    /\ pc = "phase1"
    /\ i = 0
    /\ used_check_indices = {}
    /\ unmatched_master = <<>>
    /\ llm_status = "not_called"
    /\ matched_master = {}
    /\ comparisons = <<>>
    /\ gdt_issues = <<>>
    /\ bom_mismatches = 0
    /\ summary = EmptySummary
    /\ master_gdt = <<>>
    /\ check_gdt = <<>>
    /\ master_parts = <<>>
    /\ check_parts = <<>>

\* one iteration of the Phase-1 loop
Phase1Step ==
    /\ pc = "phase1"
    /\ i < Len(master_dims)
    /\ LET m_dim == master_dims[i + 1]
           balloon_num == i + 1
           match == FindBestMatch(m_dim, check_dims, used_check_indices)
       IN IF match # NULL
          THEN /\ used_check_indices' = used_check_indices \cup {match}
               /\ comparisons' = Append(comparisons,
                      BuildComparison(balloon_num, i, m_dim, match, check_dims[match + 1]))
               /\ UNCHANGED unmatched_master
          ELSE /\ unmatched_master' = Append(unmatched_master,
                      [balloon_num |-> balloon_num, midx |-> i])
               /\ UNCHANGED <<used_check_indices, comparisons>>
    /\ i' = i + 1
    /\ UNCHANGED <<master_dims, check_dims, pc, llm_status, matched_master,
                   gdt_issues, bom_mismatches, summary,
                   master_gdt, check_gdt, master_parts, check_parts>>
    /\ UNCHANGED <<revVars, ingVars, graphVars, bindVars>>

\* the Phase-1 loop is exhausted
Phase1Exit ==
    /\ pc = "phase1"
    /\ i = Len(master_dims)
    /\ pc' = "phase2"
    /\ UNCHANGED <<master_dims, check_dims, i, used_check_indices, unmatched_master,
                   llm_status, matched_master,
                   comparisons, gdt_issues, bom_mismatches, summary,
                   master_gdt, check_gdt, master_parts, check_parts>>
    /\ UNCHANGED <<revVars, ingVars, graphVars, bindVars>>

Remaining == RemainingCheck(Len(check_dims), used_check_indices, 0)

\* "if unmatched_master:" is false
Phase2Skip ==
    /\ pc = "phase2"
    /\ unmatched_master = <<>>
    /\ pc' = "phase25"
    /\ UNCHANGED <<master_dims, check_dims, i, used_check_indices, unmatched_master,
                   llm_status, matched_master,
                   comparisons, gdt_issues, bom_mismatches, summary,
                   master_gdt, check_gdt, master_parts, check_parts>>
    /\ UNCHANGED <<revVars, ingVars, graphVars, bindVars>>

\* _llm_match_dimensions returns early: no check dimension is left
Phase2NoCandidates ==
    /\ pc = "phase2"
    /\ unmatched_master # <<>>
    /\ Remaining = <<>>
    /\ comparisons' = comparisons \o LlmNotFoundItems(unmatched_master, {}, master_dims, 0)
    /\ pc' = "phase25"
    /\ UNCHANGED <<master_dims, check_dims, i, used_check_indices, unmatched_master,
                   llm_status, matched_master,
                   gdt_issues, bom_mismatches, summary,
                   master_gdt, check_gdt, master_parts, check_parts>>
    /\ UNCHANGED <<revVars, ingVars, graphVars, bindVars>>

\* the LLM call raised, or its text could not be parsed: matches = []
Phase2LlmFailed ==
    /\ pc = "phase2"
    /\ unmatched_master # <<>>
    /\ Remaining # <<>>
    /\ comparisons' = comparisons
            \o LlmMatchDimensions(<<>>, unmatched_master, Remaining, master_dims, check_dims)
    /\ pc' = "phase25"
    /\ llm_status' = "failed"
    /\ matched_master' = {}
    /\ UNCHANGED <<master_dims, check_dims, i, used_check_indices, unmatched_master,
                   gdt_issues, bom_mismatches, summary,
                   master_gdt, check_gdt, master_parts, check_parts>>
    /\ UNCHANGED <<revVars, ingVars, graphVars, bindVars>>

\* the LLM answered with a list of match objects
Phase2Llm ==
    /\ pc = "phase2"
    /\ unmatched_master # <<>>
    /\ Remaining # <<>>
    /\ \E ms \in SeqsUpTo(MatchSet(Len(unmatched_master), Len(Remaining)), MaxMatches) :
          /\ matched_master' = MatchedMaster(ms, unmatched_master, Remaining)
          /\ IF \E k \in 1..Len(ms) : MatchRaises(ms[k], unmatched_master, Remaining)
             THEN /\ pc' = "raised"
                  /\ UNCHANGED comparisons
             ELSE /\ comparisons' = comparisons
                         \o LlmMatchDimensions(ms, unmatched_master, Remaining,
                                               master_dims, check_dims)
                  /\ pc' = "phase25"
    /\ llm_status' = "answered"
    /\ UNCHANGED <<master_dims, check_dims, i, used_check_indices, unmatched_master,
                   gdt_issues, bom_mismatches, summary,
                   master_gdt, check_gdt, master_parts, check_parts>>
    /\ UNCHANGED <<revVars, ingVars, graphVars, bindVars>>

\* the LLM answered with JSON of another shape (a list of non-objects, a
\* number, null): the loop over the matches raises out of run_comparator
Phase2LlmMalformed ==
    /\ pc = "phase2"
    /\ unmatched_master # <<>>
    /\ Remaining # <<>>
    /\ pc' = "raised"
    /\ llm_status' = "malformed"
    /\ matched_master' = {}
    /\ UNCHANGED <<master_dims, check_dims, i, used_check_indices, unmatched_master,
                   comparisons, gdt_issues, bom_mismatches, summary,
                   master_gdt, check_gdt, master_parts, check_parts>>
    /\ UNCHANGED <<revVars, ingVars, graphVars, bindVars>>

\* Phase 2.5: value and tolerance overlay on every item
Phase25 ==
    /\ pc = "phase25"
    /\ comparisons' = [k \in 1..Len(comparisons) |-> Phase25Item(comparisons[k], check_dims)]
    /\ pc' = "gdt"
    /\ UNCHANGED <<master_dims, check_dims, i, used_check_indices, unmatched_master,
                   llm_status, matched_master,
                   gdt_issues, bom_mismatches, summary,
                   master_gdt, check_gdt, master_parts, check_parts>>
    /\ UNCHANGED <<revVars, ingVars, graphVars, bindVars>>

\* Phase 2.6: GD&T diff
Phase26Gdt ==
    /\ pc = "gdt"
    /\ \E g \in GdtInputs :
          LET issues == CompareGdtSymbols(g[1], g[2])
          IN /\ master_gdt' = g[1]
             /\ check_gdt' = g[2]
             /\ gdt_issues' = issues
             /\ comparisons' = comparisons \o GdtItems(issues, MaxBalloon(comparisons) + 1)
    /\ pc' = "phase3"
    /\ UNCHANGED <<master_dims, check_dims, i, used_check_indices, unmatched_master,
                   llm_status, matched_master,
                   bom_mismatches, summary, master_parts, check_parts>>
    /\ UNCHANGED <<revVars, ingVars, graphVars, bindVars>>

\* Phase 3: relabel not_found as missing
Phase3Missing ==
    /\ pc = "phase3"
    /\ comparisons' = FindMissingDimensions(comparisons)
    /\ pc' = "bom"
    /\ UNCHANGED <<master_dims, check_dims, i, used_check_indices, unmatched_master,
                   llm_status, matched_master,
                   gdt_issues, bom_mismatches, summary,
                   master_gdt, check_gdt, master_parts, check_parts>>
    /\ UNCHANGED <<revVars, ingVars, graphVars, bindVars>>

\* Phase 4, the sort, the summary and the return
Phase4Finish ==
    /\ pc = "bom"
    /\ \E b \in BomInputs :
          LET bom == ComparePartLists(b[1], b[2], MaxBalloon(comparisons) + 1)
              sorted == SortByBalloon(comparisons \o bom)
          IN /\ master_parts' = b[1]
             /\ check_parts' = b[2]
             /\ bom_mismatches' = Len(bom)
             /\ comparisons' = sorted
             /\ summary' = Summary(sorted, Len(bom), Len(gdt_issues))
    /\ pc' = "done"
    /\ UNCHANGED <<master_dims, check_dims, i, used_check_indices, unmatched_master,
                   llm_status, matched_master,
                   gdt_issues, master_gdt, check_gdt>>
    /\ UNCHANGED <<revVars, ingVars, graphVars, bindVars>>

NextCmp ==
    \/ Phase1Step
    \/ Phase1Exit
    \/ Phase2Skip
    \/ Phase2NoCandidates
    \/ Phase2LlmFailed
    \/ Phase2LlmMalformed
    \/ Phase2Llm
    \/ Phase25
    \/ Phase26Gdt
    \/ Phase3Missing
    \/ Phase4Finish

(***************************************************************************)
(* review_agent.py: results of a review round                              *)
(***************************************************************************)
\* a region that is None, absent or {} (all falsy for _scale_region)
NoRegion == [x |-> NULL, y |-> NULL, width |-> NULL, height |-> NULL]

\* a rectangle; before scaling the unit is 1/100 of a percent, after it pixels
Region(x, y, width, height) == [x |-> x, y |-> y, width |-> width, height |-> height]

\* one OCR detection, in pixels of the image it was found on
Detection(text, left, top, width, height) ==
    [text |-> text, left |-> left, top |-> top, width |-> width, height |-> height]

\* no detection on either drawing
NoTess == [master |-> <<>>, check |-> <<>>]

\* int() of a quotient: truncation toward zero
TruncDiv(a, b) == IF a >= 0 THEN a \div b ELSE -((-a) \div b)

\* int(pct / 100 * size) for pct in 1/100 of a percent
ScalePct(pct, size) == TruncDiv(pct * size, 10000)

\* a _scale_region that does not shrink the box to the image
ScaleRegionNoShrink(region, img_width, img_height) ==
    IF region = NoRegion THEN NoRegion
    ELSE Region(Max2(0, ScalePct(region.x, img_width)),
                Max2(0, ScalePct(region.y, img_height)),
                Max2(10, ScalePct(region.width, img_width)),
                Max2(10, ScalePct(region.height, img_height)))

\* _scale_region
ScaleRegion(region, img_width, img_height) ==
    IF region = NoRegion THEN NoRegion
    ELSE LET x == Max2(0, ScalePct(region.x, img_width))
             y == Max2(0, ScalePct(region.y, img_height))
             w == Max2(10, ScalePct(region.width, img_width))
             h == Max2(10, ScalePct(region.height, img_height))
         IN Region(x, y,
                   IF x + w > img_width THEN img_width - x ELSE w,
                   IF y + h > img_height THEN img_height - y ELSE h)

\* the percentage region _find_value_in_detections builds from a detection
DetectionRegion(det, img_w, img_h) ==
    LET cx_pct == ((2 * det.left + det.width) * 10000) \div (2 * img_w)
        cy_pct == ((2 * det.top + det.height) * 10000) \div (2 * img_h)
        w_pct == Max2((det.width * 2 * 10000) \div img_w, 300)
        h_pct == Max2((det.height * 2 * 10000) \div img_h, 200)
    IN Region(cx_pct - w_pct \div 2, cy_pct - h_pct \div 2, w_pct, h_pct)

\* JSON null in a string field
PyNone == <<"<None>">>

\* str(x) of a string or of None
Str(x) == IF x = PyNone THEN <<"N", "o", "n", "e">> ELSE x

NoSummary == [src |-> "absent", md |-> 0, mt |-> 0, mv |-> 0]

\* the parsed output of a round; kind "none" is Python None (no parseable
\* JSON), "empty" is the dict {}, "dict" a dict with the three lists
Result(kind, md, mt, mv, sm) ==
    [kind |-> kind, missing_dimensions |-> md, missing_tolerances |-> mt,
     modified_values |-> mv, summary |-> sm]

NoneR == Result("none", <<>>, <<>>, <<>>, NoSummary)
EmptyR == Result("empty", <<>>, <<>>, <<>>, NoSummary)

\* Python truthiness of a round result: None and {} are falsy
Truthy(r) == r.kind = "dict"

\* the dict of the "Error: Could not parse review results" fallback
ErrorR ==
    Result("dict", <<>>, <<>>, <<>>, [src |-> "error", md |-> 0, mt |-> 0, mv |-> 0])

\* a deduplication key that keeps the case
DedupKeyCaseSensitive(value, location) == <<Strip(Str(value)), Strip(Str(location))>>

\* tuple(str(item.get(f, "")).strip().lower() for f in key_fields)
DedupKey(value, location) == <<Lower(Strip(Str(value))), Lower(Strip(Str(location)))>>

\* _dedup of run_review; the key fields are the first two fields named
RECURSIVE DedupLoop(_, _, _, _)
DedupLoop(items, keys, seen, unique) ==
    IF items = <<>> THEN unique
    ELSE LET item == Head(items)
             key == Head(keys)
         IN IF key \notin seen
            THEN DedupLoop(Tail(items), Tail(keys), seen \cup {key}, Append(unique, item))
            ELSE DedupLoop(Tail(items), Tail(keys), seen, unique)

\* item.get(f, "") for the first key field f
ItemGet(item, f) == IF f = "value" THEN item.value ELSE item.master_value

\* _dedup(items, (f, "location"))
Dedup(items, f) ==
    DedupLoop(items,
              [k \in 1..Len(items) |-> DedupKey(ItemGet(items[k], f), items[k].location)],
              {}, <<>>)

\* the keys of the cross-list filter: location is stripped without str(),
\* so a null location raises AttributeError
CrossKey(value, location) == <<Lower(Strip(Str(value))), Lower(Strip(location))>>

CrossFilterRaises(md, mv) ==
    \/ \E k \in 1..Len(mv) : mv[k].location = PyNone
    \/ \E k \in 1..Len(md) : md[k].location = PyNone

\* missing_dimensions without the items whose key is a modified_values key
CrossFilter(md, mv) ==
    LET modified_keys == {CrossKey(mv[k].master_value, mv[k].location) : k \in 1..Len(mv)}
    IN SelectSeq(md, LAMBDA item : CrossKey(item.value, item.location) \notin modified_keys)

\* "variant in text" for the search variants of _find_value_in_detections:
\* the value itself and the value stripped (the numeric variants contain
\* the stripped value, so they add no match)
MatchesText(dimension_value, text) ==
    \/ IsSubstring(dimension_value, text)
    \/ Strip(dimension_value) # <<>> /\ IsSubstring(Strip(dimension_value), text)

\* _find_value_in_detections on a list of at most one detection: the
\* detection's score (confidence plus a non-negative bonus) is positive, so
\* it is the best match as soon as its text matches
FindValueInDetections(dimension_value, detections, img_w, img_h) ==
    IF detections = <<>> THEN NoRegion
    ELSE IF MatchesText(dimension_value, detections[1].text)
    THEN DetectionRegion(detections[1], img_w, img_h)
    ELSE NoRegion

\* the body of the item loop of _refine_regions_with_ocr; f is the first key
\* field of the category ("value" or "master_value")
RefineItem(item, f, ts, dims) ==
    LET master_val == Str(ItemGet(item, f))
        check_val == IF f = "master_value" THEN Str(item.check_value) ELSE <<>>
        m_match == FindValueInDetections(master_val, ts.master, dims[1], dims[2])
        c_match == FindValueInDetections(check_val, ts.check, dims[3], dims[4])
        item1 == IF master_val = <<>> THEN item
                 ELSE IF m_match # NoRegion
                 THEN [item EXCEPT !.master_region = m_match,
                                   !.master_detection_method = "ocr_detected"]
                 ELSE [item EXCEPT !.master_detection_method = "ai_fallback"]
    IN IF check_val # <<>> /\ item1.check_region # NoRegion
       THEN IF c_match # NoRegion
            THEN [item1 EXCEPT !.check_region = c_match,
                               !.check_detection_method = "ocr_detected"]
            ELSE [item1 EXCEPT !.check_detection_method = "ai_fallback"]
       ELSE [item1 EXCEPT !.check_detection_method = "none"]

\* _refine_regions_with_ocr (the CNN detector finds nothing)
RefineRegionsWithOcr(result, ts, dims) ==
    [result EXCEPT
        !.missing_dimensions =
            [k \in 1..Len(@) |-> RefineItem(@[k], "value", ts, dims)],
        !.missing_tolerances =
            [k \in 1..Len(@) |-> RefineItem(@[k], "value", ts, dims)],
        !.modified_values =
            [k \in 1..Len(@) |-> RefineItem(@[k], "master_value", ts, dims)]]

\* the two assignments of the item loop of _scale_review_regions
ScaleItem(item, dims) ==
    [item EXCEPT !.master_region = ScaleRegion(@, dims[1], dims[2]),
                 !.check_region = ScaleRegion(@, dims[3], dims[4])]

\* _scale_review_regions
ScaleReviewRegions(result, dims) ==
    [result EXCEPT
        !.missing_dimensions = [k \in 1..Len(@) |-> ScaleItem(@[k], dims)],
        !.missing_tolerances = [k \in 1..Len(@) |-> ScaleItem(@[k], dims)],
        !.modified_values = [k \in 1..Len(@) |-> ScaleItem(@[k], dims)]]

\* lines 928-981 of run_review on the three round results
FinalResult(r1, r2, r3) ==
    LET chosen == IF r3.kind # "none" THEN r3
                  ELSE IF Truthy(r2) THEN r2
                  ELSE IF Truthy(r1) THEN r1
                  ELSE ErrorR
        md1 == Dedup(chosen.missing_dimensions, "value")
        mt1 == Dedup(chosen.missing_tolerances, "value")
        mv1 == Dedup(chosen.modified_values, "master_value")
        md2 == CrossFilter(md1, mv1)
    IN Result("dict", md2, mt1, mv1,
              IF chosen.summary.src = "absent"
              THEN [src |-> "computed", md |-> Len(md2), mt |-> Len(mt1), mv |-> Len(mv1)]
              ELSE chosen.summary)

\* the cross-list filter of FinalResult raises
FinalRaises(r1, r2, r3) ==
    LET chosen == IF r3.kind # "none" THEN r3
                  ELSE IF Truthy(r2) THEN r2
                  ELSE IF Truthy(r1) THEN r1
                  ELSE ErrorR
    IN CrossFilterRaises(Dedup(chosen.missing_dimensions, "value"),
                         Dedup(chosen.modified_values, "master_value"))

(***************************************************************************)
(* Inputs of run_review: what the three rounds may answer                  *)
(***************************************************************************)
V_r5 == <<"r", "5">>
V_R5 == <<"R", "5">>
V_r5_sp == <<" ", "r", "5">>
V_22 == <<"2", "2">>
L_a == <<"a">>
L_A == <<"A">>

\* a finding without regions, as a round returns it
Missing(value, location) ==
    [value |-> value, location |-> location,
     master_region |-> NoRegion, check_region |-> NoRegion,
     master_detection_method |-> "", check_detection_method |-> ""]

Modified(master_value, location) ==
    [master_value |-> master_value, check_value |-> master_value, location |-> location,
     master_region |-> NoRegion, check_region |-> NoRegion,
     master_detection_method |-> "", check_detection_method |-> ""]

MissingSet == {Missing(V_r5, L_a), Missing(V_R5, L_A)}
ToleranceSet == {Missing(V_r5, L_a), Missing(V_r5_sp, L_A)}
ModifiedSet == {Modified(V_r5, L_a), Modified(V_R5, L_a), Modified(V_22, PyNone)}

\* the summary a round wrote itself
LlmSummary == [src |-> "llm", md |-> 0, mt |-> 0, mv |-> 0]

\* every dict the merge round may return
MergeResults ==
    {Result("dict", md, mt, mv, sm) :
        md \in SeqsUpTo(MissingSet, MaxItems),
        mt \in SeqsUpTo(ToleranceSet, MaxItems),
        mv \in SeqsUpTo(ModifiedSet, MaxItems),
        sm \in {NoSummary, LlmSummary}}

\* the dicts rounds 1 and 2 may return
R_A == Result("dict", <<Missing(V_r5, L_a), Missing(V_R5, L_A)>>, <<>>,
              <<Modified(V_22, L_a)>>, NoSummary)
R_B == Result("dict", <<Missing(V_22, L_a)>>, <<Missing(V_r5, L_a)>>,
              <<Modified(V_22, L_a), Modified(V_22, L_A)>>, LlmSummary)

(***************************************************************************)
(* run_review                                                              *)
(***************************************************************************)
\* the third argument of _claude_final_merge: gemini_raw, or the
\* "[Gemini audit unavailable ...]" note when gemini_raw is empty
GeminiReport == IF gemini_raw = "" THEN "unavailable" ELSE gemini_raw

\* entry of run_review, images loaded
RevStart(dims, ts) ==
    /\ img_dims = dims
    /\ tess = ts
    /\ rpc = "round1"
    /\ claude_result = NoneR
    /\ gemini_result = NoneR
    /\ gemini_raw = ""
    /\ merge_result = NoneR
    /\ final_result = NoneR

\* round 1 returned text: parsed dict, {} or None (unparseable)
Round1 ==
    /\ rpc = "round1"
    /\ \E r \in {NoneR, EmptyR, R_A} : claude_result' = r
    /\ rpc' = "round2"
    /\ UNCHANGED <<gemini_result, gemini_raw, merge_result, final_result>>
    /\ UNCHANGED <<cmpVars, revEnv, ingVars, graphVars, bindVars>>

\* the provider call of round 1 raised: nothing traps it
Round1ApiError ==
    /\ rpc = "round1"
    /\ rpc' = "raised"
    /\ UNCHANGED <<claude_result, gemini_result, gemini_raw, merge_result, final_result>>
    /\ UNCHANGED <<cmpVars, revEnv, ingVars, graphVars, bindVars>>

\* a round 2 whose provider error is not trapped
Round2ErrorRaises ==
    /\ rpc = "round2"
    /\ \/ /\ gemini_result' = NoneR
          /\ gemini_raw' = "error"
          /\ rpc' = "raised"
       \/ /\ gemini_result' \in {NoneR, EmptyR, R_B}
          /\ gemini_raw' = "text"
          /\ rpc' = "round3"
    /\ UNCHANGED <<claude_result, merge_result, final_result>>
    /\ UNCHANGED <<cmpVars, revEnv, ingVars, graphVars, bindVars>>

\* round 2: provider error (trapped), empty response, or text
Round2 ==
    /\ rpc = "round2"
    /\ \/ /\ gemini_result' = NoneR
          /\ gemini_raw' \in {"error", ""}
       \/ /\ gemini_result' \in {NoneR, EmptyR, R_B}
          /\ gemini_raw' = "text"
    /\ rpc' = "round3"
    /\ UNCHANGED <<claude_result, merge_result, final_result>>
    /\ UNCHANGED <<cmpVars, revEnv, ingVars, graphVars, bindVars>>

\* round 3 returned text
Round3 ==
    /\ rpc = "round3"
    /\ merge_result' \in {NoneR, EmptyR} \cup MergeResults
    /\ rpc' = "finish"
    /\ UNCHANGED <<claude_result, gemini_result, gemini_raw, final_result>>
    /\ UNCHANGED <<cmpVars, revEnv, ingVars, graphVars, bindVars>>

\* the provider call of round 3 raised: nothing traps it
Round3ApiError ==
    /\ rpc = "round3"
    /\ rpc' = "raised"
    /\ UNCHANGED <<claude_result, gemini_result, gemini_raw, merge_result, final_result>>
    /\ UNCHANGED <<cmpVars, revEnv, ingVars, graphVars, bindVars>>

\* fallback chain, setdefault, deduplication, summary, region refinement,
\* region scaling and return
Finish ==
    /\ rpc = "finish"
    /\ IF FinalRaises(claude_result, gemini_result, merge_result)
       THEN /\ rpc' = "raised"
            /\ UNCHANGED final_result
       ELSE /\ rpc' = "returned"
            /\ final_result' =
                  ScaleReviewRegions(
                      RefineRegionsWithOcr(
                          FinalResult(claude_result, gemini_result, merge_result),
                          tess, img_dims),
                      img_dims)
    /\ UNCHANGED <<claude_result, gemini_result, gemini_raw, merge_result>>
    /\ UNCHANGED <<cmpVars, revEnv, ingVars, graphVars, bindVars>>

NextRev ==
    \/ Round1
    \/ Round1ApiError
    \/ Round2
    \/ Round3
    \/ Round3ApiError
    \/ Finish

(***************************************************************************)
(* run_ingestor: the vision-LLM call, its retry loop and the parsing of    *)
(* the response.  A response text is a sequence of JSON tokens; blanks     *)
(* between tokens carry no meaning for json.loads nor for the regular      *)
(* expressions of fix_json and are left out.                               *)
(***************************************************************************)
MAX_RETRIES == 5
INITIAL_BACKOFF == 30

Q_DIMS == "\"dimensions\""
Q_VALUE == "\"value\""
Q_COORDS == "\"coordinates\""
Q_PARTS == "\"part_list\""
Q_UNIT == "\"unit\""

\* tokens that are JSON strings, and tokens that are JSON numbers
StrTok == {Q_DIMS, Q_VALUE, Q_COORDS, Q_PARTS, Q_UNIT}
NumTok == {"1", "2"}

\* JSON values as json.loads builds them: dict, list, or anything else
JObj(keys, vals) == [t |-> "obj", keys |-> keys, vals |-> vals]
JArr(vals) == [t |-> "arr", keys |-> <<>>, vals |-> vals]
JAtom(tok) == [t |-> "atom", keys |-> <<tok>>, vals |-> <<>>]
EmptyDict == JObj(<<>>, <<>>)

HasKey(d, k) == \E n \in 1..Len(d.keys) : d.keys[n] = k

\* d.get(k, default)
JGet(d, k, default) ==
    IF HasKey(d, k)
    THEN d.vals[CHOOSE n \in 1..Len(d.keys) : d.keys[n] = k]
    ELSE default

\* d[k] = v
JPut(d, k, v) ==
    IF HasKey(d, k)
    THEN LET n == CHOOSE m \in 1..Len(d.keys) : d.keys[m] = k
         IN JObj(d.keys, [d.vals EXCEPT ![n] = v])
    ELSE JObj(Append(d.keys, k), Append(d.vals, v))

JFail == [ok |-> FALSE, pos |-> 0, val |-> EmptyDict]
JOk(p, v) == [ok |-> TRUE, pos |-> p, val |-> v]

RECURSIVE ParseValue(_, _)
RECURSIVE ParseMembers(_, _, _)
RECURSIVE ParseElements(_, _, _)

\* the members of an object from position p on, d the members read so far
ParseMembers(text, p, d) ==
    IF p + 2 > Len(text) \/ text[p] \notin StrTok \/ text[p + 1] # ":"
    THEN JFail
    ELSE LET v == ParseValue(text, p + 2)
         IN IF ~v.ok \/ v.pos > Len(text) THEN JFail
            ELSE IF text[v.pos] = "}"
                 THEN JOk(v.pos + 1, JPut(d, text[p], v.val))
            ELSE IF text[v.pos] = ","
                 THEN ParseMembers(text, v.pos + 1, JPut(d, text[p], v.val))
            ELSE JFail

\* the elements of an array from position p on, vals the elements read so far
ParseElements(text, p, vals) ==
    LET v == ParseValue(text, p)
    IN IF ~v.ok \/ v.pos > Len(text) THEN JFail
       ELSE IF text[v.pos] = "]" THEN JOk(v.pos + 1, JArr(Append(vals, v.val)))
       ELSE IF text[v.pos] = "," THEN ParseElements(text, v.pos + 1, Append(vals, v.val))
       ELSE JFail

\* one JSON value starting at position p
ParseValue(text, p) ==
    IF p > Len(text) THEN JFail
    ELSE IF text[p] = "{"
         THEN IF p + 1 <= Len(text) /\ text[p + 1] = "}"
              THEN JOk(p + 2, EmptyDict)
              ELSE ParseMembers(text, p + 1, EmptyDict)
    ELSE IF text[p] = "["
         THEN IF p + 1 <= Len(text) /\ text[p + 1] = "]"
              THEN JOk(p + 2, JArr(<<>>))
              ELSE ParseElements(text, p + 1, <<>>)
    ELSE IF text[p] \in StrTok \cup NumTok \cup {"null"}
         THEN JOk(p + 1, JAtom(text[p]))
    ELSE JFail

\* json.loads(text): ok is FALSE where it raises JSONDecodeError
JsonLoads(text) ==
    LET r == ParseValue(text, 1)
    IN IF r.ok /\ r.pos = Len(text) + 1 THEN r ELSE JFail

\* text.find(tok, from): the first position >= from, 0 when there is none
Find(text, tok, from) ==
    IF \E k \in from..Len(text) : text[k] = tok
    THEN CHOOSE k \in from..Len(text) :
            text[k] = tok /\ \A j \in from..(k - 1) : text[j] # tok
    ELSE 0

\* text.rfind(tok): the last position, 0 when there is none
RFind(text, tok) ==
    IF \E k \in 1..Len(text) : text[k] = tok
    THEN CHOOSE k \in 1..Len(text) :
            text[k] = tok /\ \A j \in (k + 1)..Len(text) : text[j] # tok
    ELSE 0

RECURSIVE DropCommasBefore(_, _)
\* re.sub(r',\s*([...])', r'\1', text): a comma right before a token of
\* `closers` is removed
DropCommasBefore(text, closers) ==
    IF text = <<>> THEN <<>>
    ELSE IF text[1] = "," /\ Len(text) > 1 /\ text[2] \in closers
         THEN DropCommasBefore(Tail(text), closers)
         ELSE <<text[1]>> \o DropCommasBefore(Tail(text), closers)

\* re.sub(r':\s*None\b', ': null', text)
NoneToNull(text) ==
    [k \in 1..Len(text) |->
        IF text[k] = "None" /\ k > 1 /\ text[k - 1] = ":" THEN "null" ELSE text[k]]

RECURSIVE MatchBrace(_, _, _)
\* the inner while loop of fix_json: advance pos until depth is 0 or the text ends
MatchBrace(text, pos, depth) ==
    IF pos <= Len(text) /\ depth > 0
    THEN MatchBrace(text, pos + 1,
                    IF text[pos] = "{" THEN depth + 1
                    ELSE IF text[pos] = "}" THEN depth - 1 ELSE depth)
    ELSE [pos |-> pos, depth |-> depth]

RECURSIVE SkipSeparators(_, _)
\* the skipping loop of fix_json: commas (and blanks) between objects
SkipSeparators(text, pos) ==
    IF pos <= Len(text) /\ text[pos] = "," THEN SkipSeparators(text, pos + 1) ELSE pos

RECURSIVE RecoverDimensions(_, _, _)
\* the outer while loop of fix_json from position pos on
RecoverDimensions(text, pos, dimensions) ==
    LET s == SkipSeparators(text, pos)
    IN IF pos > Len(text) \/ s > Len(text) \/ text[s] = "]" THEN dimensions
       ELSE IF text[s] = "{"
            THEN LET m == MatchBrace(text, s + 1, 1)
                     obj_text == NoneToNull(DropCommasBefore(SubSeq(text, s, m.pos - 1), {"}"}))
                     dim == JsonLoads(obj_text)
                 IN IF m.depth = 0 /\ dim.ok
                       /\ (HasKey(dim.val, Q_VALUE) \/ HasKey(dim.val, Q_COORDS))
                    THEN RecoverDimensions(text, m.pos, Append(dimensions, dim.val))
                    ELSE RecoverDimensions(text, m.pos, dimensions)
            ELSE RecoverDimensions(text, s + 1, dimensions)

\* fix_json(text)
FixJson(raw) ==
    LET start == Find(raw, "{", 1)
        end == RFind(raw, "}")
    IN IF start = 0 \/ end < start THEN EmptyDict
       ELSE LET text == NoneToNull(DropCommasBefore(SubSeq(raw, start, end), {"}", "]"}))
                parsed == JsonLoads(text)
                dims_start == Find(text, Q_DIMS, 1)
                bracket_start == IF dims_start = 0 THEN 0 ELSE Find(text, "[", dims_start)
                dimensions == IF bracket_start = 0 THEN <<>>
                              ELSE RecoverDimensions(text, bracket_start + 1, <<>>)
            IN IF parsed.ok THEN parsed.val
               ELSE IF dimensions # <<>>
                    THEN JObj(<<Q_DIMS, "\"zones\"", Q_PARTS, "\"gdt_callouts\"">>,
                              <<JArr(dimensions), JArr(<<>>), JArr(<<>>), JArr(<<>>)>>)
               ELSE EmptyDict

RECURSIVE MergeItem(_, _, _)
\* the inner loop of the merge of a top-level list: the members of item from n on
MergeItem(merged, item, n) ==
    IF n > Len(item.keys) THEN merged
    ELSE LET k == item.keys[n]
             v == item.vals[n]
             old == JGet(merged, k, EmptyDict)
         IN MergeItem(IF HasKey(merged, k) /\ old.t = "arr" /\ v.t = "arr"
                      THEN JPut(merged, k, JArr(old.vals \o v.vals))
                      ELSE JPut(merged, k, v),
                      item, n + 1)

RECURSIVE MergeList(_, _)
\* the merge of a top-level list of two or more elements into one dict
MergeList(items, merged) ==
    IF items = <<>> THEN merged
    ELSE MergeList(Tail(items),
                   IF items[1].t = "obj" THEN MergeItem(merged, items[1], 1) ELSE merged)

\* lines 1703-1729: the dict run_ingestor goes on with; raises is TRUE where
\* an exception other than JSONDecodeError leaves the try block
ParseResponse(text) ==
    LET r == JsonLoads(text)
    IN IF ~r.ok THEN [raises |-> FALSE, extracted |-> FixJson(text)]
       ELSE IF r.val.t = "arr"
            THEN [raises |-> FALSE,
                  extracted |->
                      IF Len(r.val.vals) = 1 /\ r.val.vals[1].t = "obj" THEN r.val.vals[1]
                      ELSE IF Len(r.val.vals) > 1 THEN MergeList(r.val.vals, EmptyDict)
                      ELSE EmptyDict]
       ELSE IF r.val.t = "obj" THEN [raises |-> FALSE, extracted |-> r.val]
       ELSE [raises |-> TRUE, extracted |-> EmptyDict]

\* the wait before the retry that follows a rate-limited attempt
BackoffLinear(n) == INITIAL_BACKOFF * (n + 1)

Backoff(n) == INITIAL_BACKOFF * (2 ^ n)

\* response texts of the vision LLM
T_DIM1 == <<"{", Q_VALUE, ":", "1", "}">>
T_DIM2 == <<"{", Q_VALUE, ":", "2", "}">>
T_OK == <<"{", Q_DIMS, ":", "[">> \o T_DIM1 \o <<"]", "}">>
T_OK2 == <<"{", Q_DIMS, ":", "[">> \o T_DIM2 \o <<"]", ",", Q_PARTS, ":", "[", "]", "}">>
T_TRAILING == <<"{", Q_DIMS, ":", "[", "{", Q_VALUE, ":", "1", ",", "}", ",", "]", "}">>
T_PROSE == <<"Here">> \o T_OK \o <<"Done">>
T_NONE == <<"{", Q_DIMS, ":", "[", "{", Q_VALUE, ":", "None", "}", "]", "}">>
T_TRUNCATED ==
    <<"{", Q_DIMS, ":", "[">> \o T_DIM1
        \o <<",", "{", Q_UNIT, ":", "1", "}">>
        \o <<",", "{", Q_COORDS, ":", "{", "}", "}">>
        \o <<",", "{", Q_VALUE, ":">>
T_WORDS == <<"Sorry">>
T_BADOBJ == <<"{", "Sorry", "}">>
T_EMPTY == <<>>
T_LIST1 == <<"[">> \o T_OK \o <<"]">>
T_LIST2 == <<"[">> \o T_OK \o <<",">> \o T_OK2 \o <<"]">>
T_LIST0 == <<"[", "]">>
T_NUMBER == <<"1">>

ResponseSet ==
    {T_OK, T_OK2, T_TRAILING, T_PROSE, T_NONE, T_TRUNCATED, T_WORDS, T_BADOBJ,
     T_EMPTY, T_LIST1, T_LIST2, T_LIST0, T_NUMBER}

\* a machine state: the lists of the dict, kind "none" where there is none
NoState == [kind |-> "none", dimensions |-> <<>>, part_list |-> <<>>]
State(dimensions, part_list) ==
    [kind |-> "state", dimensions |-> dimensions, part_list |-> part_list]

\* the machine state of an earlier pass, as a rescan finds it
PriorState == State(<<JObj(<<Q_VALUE>>, <<JAtom("2")>>)>>, <<EmptyDict>>)

\* extracted.get(k, []) as a list
ListOf(d, k) == JGet(d, k, JArr(<<>>)).vals

\* lines 1798-1820: a rescan replaces the lists of the existing state that the
\* new extraction filled, any other run builds the state from the extraction
BuildMachineState(ext, rescan, existing) ==
    IF rescan /\ existing.kind = "state"
    THEN State(IF ListOf(ext, Q_DIMS) # <<>> THEN ListOf(ext, Q_DIMS)
               ELSE existing.dimensions,
               IF ListOf(ext, Q_PARTS) # <<>> THEN ListOf(ext, Q_PARTS)
               ELSE existing.part_list)
    ELSE State(ListOf(ext, Q_DIMS), ListOf(ext, Q_PARTS))

\* run_ingestor is entered: rescan is "crop_region is not None"
IngStart(rescan, existing) ==
    /\ ing_pc = "calling"
    /\ attempt = 0
    /\ outcomes = <<>>
    /\ sleeps = <<>>
    /\ response = <<>>
    /\ extracted = EmptyDict
    /\ is_rescan = rescan
    /\ machine_state = existing

\* generate_content_async returns: break out of the retry loop
CallSucceeds ==
    /\ ing_pc = "calling"
    /\ \E text \in ResponseSet : response' = text
    /\ outcomes' = Append(outcomes, "ok")
    /\ ing_pc' = "parsing"
    /\ UNCHANGED <<attempt, sleeps, extracted, is_rescan, machine_state>>
    /\ UNCHANGED <<cmpVars, revVars, graphVars, bindVars>>

\* generate_content_async raises ResourceExhausted
CallRateLimited ==
    /\ ing_pc = "calling"
    /\ outcomes' = Append(outcomes, "rate_limit")
    /\ IF attempt < MAX_RETRIES - 1
       THEN /\ sleeps' = Append(sleeps, Backoff(attempt))
            /\ attempt' = attempt + 1
            /\ ing_pc' = "calling"
       ELSE /\ ing_pc' = "failed"
            /\ UNCHANGED <<attempt, sleeps>>
    /\ UNCHANGED <<response, extracted, is_rescan, machine_state>>
    /\ UNCHANGED <<cmpVars, revVars, graphVars, bindVars>>

\* generate_content_async raises anything else: nothing catches it
CallFails ==
    /\ ing_pc = "calling"
    /\ outcomes' = Append(outcomes, "error")
    /\ ing_pc' = "failed"
    /\ UNCHANGED <<attempt, sleeps, response, extracted, is_rescan, machine_state>>
    /\ UNCHANGED <<cmpVars, revVars, graphVars, bindVars>>

\* the response is parsed, repaired where json.loads rejects it
Parse ==
    /\ ing_pc = "parsing"
    /\ LET r == ParseResponse(response)
       IN IF r.raises
          THEN ing_pc' = "failed" /\ UNCHANGED extracted
          ELSE ing_pc' = "binding" /\ extracted' = r.extracted
    /\ UNCHANGED <<attempt, outcomes, sleeps, response, is_rescan, machine_state>>
    /\ UNCHANGED <<cmpVars, revVars, graphVars, bindVars>>

\* phases 0 to 4 work on the lists of extracted, then the state is returned
\* with status "ingested"
Ingested ==
    /\ ing_pc = "binding"
    /\ machine_state' = BuildMachineState(extracted, is_rescan, machine_state)
    /\ ing_pc' = "ingested"
    /\ UNCHANGED <<attempt, outcomes, sleeps, response, extracted, is_rescan>>
    /\ UNCHANGED <<cmpVars, revVars, graphVars, bindVars>>

NextIng ==
    \/ CallSucceeds
    \/ CallRateLimited
    \/ CallFails
    \/ Parse
    \/ Ingested

\* no graph is running
GraphIdle ==
    /\ node = "idle"
    /\ ingestion = [master |-> "pending", check |-> "pending"]
    /\ reflexion_count = 0
    /\ crop_region = FALSE
    /\ findings = {}
    /\ agent_log = <<>>

\* no dimension is being worked on
BindIdle ==
    /\ bind_pc = "idle"
    /\ bound_dim = <<>>
    /\ img_size = <<0, 0>>
    /\ actual_size = <<0, 0>>
    /\ state_dim = <<>>

\* run_ingestor is not running
IngIdle ==
    /\ ing_pc = "idle"
    /\ attempt = 0
    /\ outcomes = <<>>
    /\ sleeps = <<>>
    /\ response = <<>>
    /\ extracted = EmptyDict
    /\ is_rescan = FALSE
    /\ machine_state = NoState

\* run_comparator is not running
CmpIdle ==
    /\ master_dims = <<>>
    /\ check_dims = <<>>
    /\ pc = "idle"
    /\ i = 0
    /\ used_check_indices = {}
    /\ unmatched_master = <<>>
    /\ llm_status = "not_called"
    /\ matched_master = {}
    /\ comparisons = <<>>
    /\ gdt_issues = <<>>
    /\ bom_mismatches = 0
    /\ summary = EmptySummary
    /\ master_gdt = <<>>
    /\ check_gdt = <<>>
    /\ master_parts = <<>>
    /\ check_parts = <<>>

\* both drawings 1000 x 800 px, nothing detected by OCR
InitReview ==
    /\ RevStart(<<1000, 800, 1000, 800>>, NoTess)
    /\ CmpIdle
    /\ IngIdle
    /\ GraphIdle
    /\ BindIdle

SpecReview == InitReview /\ [][NextRev]_vars

(***************************************************************************)
(* run_review on findings that carry regions                               *)
(***************************************************************************)
\* x and width of a region a round may write, in 1/100 of a percent: below
\* 0, inside 0..100 and above 100
PctX == {-1000, 0, 5000, 9900, 10000, 15000}
PctW == {-500, 100, 800, 20000}

\* <<y, height>> of a region a round may write
PctYH == {<<5000, 500>>, <<9900, 100>>}

RegionSet == {Region(x, yh[1], w, yh[2]) : x \in PctX, w \in PctW, yh \in PctYH}

\* one finding with regions, in missing_dimensions or in modified_values
RegionResults ==
    {Result("dict", <<[Missing(V_r5, L_a) EXCEPT !.master_region = r]>>, <<>>, <<>>,
            NoSummary) : r \in RegionSet}
    \cup {Result("dict", <<>>, <<>>,
                 <<[Modified(V_r5, L_a) EXCEPT !.master_region = r, !.check_region = c]>>,
                 NoSummary) :
             r \in RegionSet, c \in {NoRegion, Region(9900, 5000, 100, 500)}}

\* pixel sizes <<mw, mh, cw, ch>> of the two drawings
ImageDimsSet == {<<1000, 800, 500, 400>>, <<500, 400, 1000, 800>>}

\* what Tesseract finds: nothing, or the value once on each drawing (on the
\* master 2 px from the right edge of a 500 px wide image)
TessSet ==
    {NoTess,
     [master |-> <<Detection(V_r5, 498, 95, 2, 10)>>,
      check |-> <<Detection(V_r5, 240, 95, 20, 10)>>],
     [master |-> <<Detection(V_22, 240, 95, 20, 10)>>, check |-> <<>>]}

\* round 3 returned text with one finding
Round3Regions ==
    /\ rpc = "round3"
    /\ merge_result' \in {NoneR} \cup RegionResults
    /\ rpc' = "finish"
    /\ UNCHANGED <<claude_result, gemini_result, gemini_raw, final_result>>
    /\ UNCHANGED <<cmpVars, revEnv, ingVars, graphVars, bindVars>>

NextRegion ==
    \/ Round1
    \/ Round1ApiError
    \/ Round2
    \/ Round3Regions
    \/ Round3ApiError
    \/ Finish

InitRegion ==
    /\ \E dims \in ImageDimsSet, ts \in TessSet : RevStart(dims, ts)
    /\ CmpIdle
    /\ IngIdle
    /\ GraphIdle
    /\ BindIdle

SpecRegion == InitRegion /\ [][NextRegion]_vars

\* run_review is not running
RevIdle ==
    /\ rpc = "idle"
    /\ claude_result = NoneR
    /\ gemini_result = NoneR
    /\ gemini_raw = ""
    /\ merge_result = NoneR
    /\ final_result = NoneR
    /\ img_dims = <<0, 0, 0, 0>>
    /\ tess = NoTess

Init ==
    /\ \E mds \in SeqsUpTo(MasterDimSet, MaxDims), cds \in SeqsUpTo(CheckDimSet, MaxDims) :
          CmpStart(mds, cds)
    /\ RevIdle
    /\ IngIdle
    /\ GraphIdle
    /\ BindIdle

Spec == Init /\ [][NextCmp]_vars

(***************************************************************************)
(* One master dimension against one check dimension                        *)
(***************************************************************************)
S_H7_SP == <<"H", "7", " ">>

\* tolerance pairs <<upper_tol, lower_tol>>
TolNone == <<NULL, NULL>>
TolSym == <<100, -100>>
TolUpperOnly == <<100, NULL>>
TolWide == <<200, -100>>

\* <<feature_type, coordinates>> of a check dimension: the first is matched
\* by Phase 1, the second only when the values are close
NearSpot == <<S_DIA, P0>>
FarSpot == <<S_LEN, PFar>>

\* toleranced master, check value inside / at the edge of / outside the band
PairsTol ==
    { <<Dim(25000, mt[1], mt[2], <<>>, S_DIA, P0, "None"),
        Dim(cv, ct[1], ct[2], <<>>, S_DIA, P0, "None")>> :
        mt \in {TolSym, TolUpperOnly},
        cv \in {NULL, 25000, 25005, 25050, 25110, 25130, 30000, 250000},
        ct \in {TolNone, TolSym, TolWide} }

\* value changes of every size, with and without a master tolerance
PairsValue ==
    { <<Dim(mv, mt[1], mt[2], <<>>, S_DIA, P0, "None"),
        Dim(cv, mt[1], mt[2], <<>>, spot[1], spot[2], "None")>> :
        mv \in {NULL, 0, 1, 25000, -25000},
        mt \in {TolNone, TolSym},
        cv \in {NULL, 0, 1, 10, 2500, 25000, 25050, 26000, 26250, 27500, 30000,
                250000, -2500, -250000},
        spot \in {NearSpot, FarSpot} }

\* tolerance class kept, changed, changed in case only, dropped
PairsClass ==
    { <<Dim(25000, t[1], t[2], mtc, S_DIA, P0, "None"),
        Dim(cv, t[1], t[2], ctc, S_DIA, P0, "None")>> :
        t \in {TolNone, TolSym},
        mtc \in {<<>>, S_H7},
        cv \in {25000, 26250, 30000},
        ctc \in {<<>>, S_H7, S_h7, S_g6, S_H7_SP} }

InitPair ==
    /\ \/ \E pr \in PairsTol \cup PairsValue \cup PairsClass :
             CmpStart(<<pr[1]>>, <<pr[2]>>)
       \/ \E pr \in PairsClass : CmpStart(<<pr[1]>>, <<>>)
    /\ RevIdle
    /\ IngIdle
    /\ GraphIdle
    /\ BindIdle

SpecPair == InitPair /\ [][NextCmp]_vars

\* a first extraction, or a rescan of a drawing that has a machine state
InitIngest ==
    /\ \/ IngStart(FALSE, NoState)
       \/ IngStart(TRUE, PriorState)
    /\ CmpIdle
    /\ RevIdle
    /\ GraphIdle
    /\ BindIdle

SpecIngest == InitIngest /\ [][NextIng]_vars

(***************************************************************************)
(* Properties of run_comparator                                            *)
(***************************************************************************)
Returned == pc = "done"

ItemIdx == 1..Len(comparisons)

\* the items built for the master dimension with 0-based index k
ItemsOf(k) == {j \in ItemIdx : comparisons[j].master_idx = k}

\* the items that pair a master dimension with a check dimension
PairedItems == {j \in ItemIdx : comparisons[j].check_idx # NULL}

MasterOf(j) == master_dims[comparisons[j].master_idx + 1]
CheckOf(j) == check_dims[comparisons[j].check_idx + 1]

\* C1 (as claimed): in the returned list the balloon numbers are strictly
\* increasing, so no two items share a balloon number, whatever the
\* Phase-2 LLM answered.
C1_BalloonsStrictlyIncreasing ==
    Returned =>
        \A a \in ItemIdx, b \in ItemIdx :
            a < b => comparisons[a].balloon_number < comparisons[b].balloon_number

\* both machine states are the same, and there is something to compare
IdenticalStates ==
    /\ Len(master_dims) >= 1
    /\ check_dims = master_dims
    /\ check_gdt = master_gdt
    /\ check_parts = master_parts

\* C3 (as claimed): when the check machine state is identical to the master
\* machine state, every master dimension has an item with status pass and
\* the score is 100.0.
C3_IdenticalAllPass ==
    (Returned /\ IdenticalStates) =>
        /\ \A k \in 0..(Len(master_dims) - 1) :
              \E j \in ItemsOf(k) : comparisons[j].status = "pass"
        /\ summary.score = 1000

\* the tolerance-relevant facts of a paired item
Nominal(j) == comparisons[j].master_nominal
HasNominal(j) == Nominal(j) # NULL /\ Nominal(j) # 0
HasValue(j) == CheckOf(j).value # NULL
Deviation(j) == CheckOf(j).value - Nominal(j)
MasterHasTol(j) == MasterOf(j).upper_tol # NULL \/ MasterOf(j).lower_tol # NULL
CheckHasTol(j) == CheckOf(j).upper_tol # NULL \/ CheckOf(j).lower_tol # NULL
SameTol(j) ==
    /\ MasterOf(j).upper_tol = CheckOf(j).upper_tol
    /\ MasterOf(j).lower_tol = CheckOf(j).lower_tol
SameClass(j) == Strip(MasterOf(j).tolerance_class) = Strip(CheckOf(j).tolerance_class)
FactorTenApart(j) ==
    Max2(Abs(Nominal(j)), Abs(CheckOf(j).value))
        >= 10 * Min2(Abs(Nominal(j)), Abs(CheckOf(j).value))

\* C4 (as claimed): a matched pair whose master specifies a tolerance, with
\* the same limits and class on both drawings and a deviation inside
\* [lower_tol, upper_tol], is returned with status pass.
C4_InTolerancePass ==
    Returned =>
        \A j \in PairedItems :
            ( /\ MasterHasTol(j) /\ SameTol(j) /\ SameClass(j)
              /\ HasNominal(j) /\ HasValue(j)
              /\ OrZero(MasterOf(j).lower_tol) <= Deviation(j)
              /\ Deviation(j) <= OrZero(MasterOf(j).upper_tol) )
            => comparisons[j].status = "pass"

\* C5 (as claimed): a matched pair without tolerance on either drawing whose
\* check value differs from the non-zero nominal by 5% or more, but by less
\* than a factor of 10, is returned with status deviation.
C5_CustomizedValueIsDeviation ==
    Returned =>
        \A j \in PairedItems :
            ( /\ ~MasterHasTol(j) /\ ~CheckHasTol(j)
              /\ HasNominal(j) /\ HasValue(j)
              /\ Abs(Deviation(j)) * 100 >= 5 * Abs(Nominal(j))
              /\ ~FactorTenApart(j) )
            => comparisons[j].status = "deviation"

\* C6 (as claimed): a matched pair whose master has an upper or lower
\* tolerance while the matched check dimension has neither is returned
\* with status fail.
C6_MissingToleranceForcesFail ==
    Returned =>
        \A j \in PairedItems :
            (MasterHasTol(j) /\ ~CheckHasTol(j)) => comparisons[j].status = "fail"

\* C7 (as claimed): a matched pair whose master tolerance class differs from
\* the class of the check dimension (a missing class included) is returned
\* with status warning or fail and requires_manual_review set.
C7_ClassChangeFlagged ==
    Returned =>
        \A j \in PairedItems :
            (Strip(MasterOf(j).tolerance_class) # <<>> /\ ~SameClass(j))
            => /\ comparisons[j].status \in {"warning", "fail"}
               /\ comparisons[j].requires_manual_review

\* C8 (as claimed): a matched pair with non-null, non-zero nominal and check
\* value whose magnitudes differ by a factor of 10 or more is returned with
\* status fail.
C8_DecimalErrorFails ==
    Returned =>
        \A j \in PairedItems :
            (HasNominal(j) /\ HasValue(j) /\ CheckOf(j).value # 0 /\ FactorTenApart(j))
            => comparisons[j].status = "fail"

\* C8 (amended): a matched pair with non-null, non-zero nominal and check
\* value whose magnitudes differ by a factor of 10 or more, and whose values
\* differ by at least TOLERANCE_THRESHOLD (0.01), is returned with status fail.
C8_DecimalErrorAboveThresholdFails ==
    Returned =>
        \A j \in PairedItems :
            ( /\ HasNominal(j) /\ HasValue(j) /\ CheckOf(j).value # 0
              /\ FactorTenApart(j)
              /\ Abs(Deviation(j)) >= TOLERANCE_THRESHOLD )
            => comparisons[j].status = "fail"

\* C8 witness: a returned pair a factor of 10 apart that the tolerance
\* evaluation alone had not failed, and that the value overlay forced to fail
C8_Witness ==
    /\ Returned
    /\ \E j \in PairedItems :
          /\ HasNominal(j) /\ HasValue(j) /\ CheckOf(j).value # 0
          /\ FactorTenApart(j)
          /\ Abs(Deviation(j)) >= TOLERANCE_THRESHOLD
          /\ EvaluateTolerance(MasterOf(j), CheckOf(j)).status = "deviation"
          /\ comparisons[j].status = "fail"

\* seq without its k-th element
RemoveAt(seq, k) == SubSeq(seq, 1, k - 1) \o SubSeq(seq, k + 1, Len(seq))

\* C9 (as claimed): when the check dimensions are the master dimensions with
\* one removed, the removed master dimension is the only item with status
\* missing, every other master dimension is reported pass, and
\* summary.missing is 1.
C9_RemovedIsTheOnlyMissing ==
    ( /\ Returned
      /\ check_gdt = master_gdt
      /\ check_parts = master_parts
      /\ \E r \in 1..Len(master_dims) : check_dims = RemoveAt(master_dims, r) )
    => \E r \in 1..Len(master_dims) :
          /\ check_dims = RemoveAt(master_dims, r)
          /\ \A j \in ItemIdx :
                comparisons[j].status = "missing" <=> comparisons[j].master_idx = r - 1
          /\ \A k \in 0..(Len(master_dims) - 1) :
                k # r - 1 => \A j \in ItemsOf(k) : comparisons[j].status = "pass"
          /\ ItemsOf(r - 1) # {}
          /\ summary.missing = 1

\* the master dimensions that no returned item pairs with a check dimension
UnpairedMaster ==
    {k \in 0..(Len(master_dims) - 1) :
        ~\E j \in ItemsOf(k) : comparisons[j].check_idx # NULL}

ReviewReturned == rpc = "returned"

\* case-folded (value, location)
FoldKey(value, location) == <<Lower(Str(value)), Lower(Str(location))>>

\* no two items of the list share the key
NoSharedKey(items, f) ==
    \A a \in 1..Len(items), b \in 1..Len(items) :
        a # b => FoldKey(ItemGet(items[a], f), items[a].location)
                    # FoldKey(ItemGet(items[b], f), items[b].location)

MissingFold(item) == FoldKey(item.value, item.location)
ModifiedFold(item) == FoldKey(item.master_value, item.location)

\* C2: in every returned result no two missing_dimensions share the
\* case-folded (value, location), likewise missing_tolerances, likewise
\* modified_values by (master_value, location), and no missing_dimensions
\* item has the (value, location) of a modified_values item.
C2_ReviewDeduplicated ==
    ReviewReturned =>
        /\ NoSharedKey(final_result.missing_dimensions, "value")
        /\ NoSharedKey(final_result.missing_tolerances, "value")
        /\ NoSharedKey(final_result.modified_values, "master_value")
        /\ \A a \in 1..Len(final_result.missing_dimensions),
              b \in 1..Len(final_result.modified_values) :
                 MissingFold(final_result.missing_dimensions[a])
                    # ModifiedFold(final_result.modified_values[b])

\* C2 witness: the merge round repeated a missing dimension in another case
\* and also reported one as modified; the returned result dropped both
C2_Witness ==
    /\ ReviewReturned
    /\ merge_result.kind = "dict"
    /\ ~NoSharedKey(merge_result.missing_dimensions, "value")
    /\ \E a \in 1..Len(merge_result.missing_dimensions),
          b \in 1..Len(merge_result.modified_values) :
             MissingFold(merge_result.missing_dimensions[a])
                = ModifiedFold(merge_result.modified_values[b])
    /\ Len(final_result.missing_dimensions) < Len(merge_result.missing_dimensions)

(***************************************************************************)
(* Properties of the Phase-1 matcher                                       *)
(***************************************************************************)
\* the check indices not yet used when the Phase-1 step is taken
FreeCheck == {k \in 0..(Len(check_dims) - 1) : k \notin used_check_indices}

\* the free check dimensions of highest score for the master dimension at i
TopFree ==
    {k \in FreeCheck :
        \A o \in FreeCheck :
            Score(master_dims[i + 1], check_dims[o + 1])
                <= Score(master_dims[i + 1], check_dims[k + 1])}

\* the top score reaches the floor of 2
TopAccepted ==
    \E k \in TopFree : Score(master_dims[i + 1], check_dims[k + 1]) >= 2

\* C11: Phase 1 takes the master dimensions in list order and pairs each
\* with the free check dimension of highest score, provided the score is at
\* least 2; among equal top scores the lowest index wins; below 2 the master
\* dimension is left unmatched for Phase 2.
C11_Phase1PicksFirstBest ==
    [][ (pc = "phase1" /\ i < Len(master_dims) /\ i' = i + 1) =>
          IF TopAccepted
          THEN LET first == CHOOSE k \in TopFree : \A o \in TopFree : k <= o
               IN /\ used_check_indices' = used_check_indices \cup {first}
                  /\ Len(comparisons') = Len(comparisons) + 1
                  /\ comparisons'[Len(comparisons')].master_idx = i
                  /\ comparisons'[Len(comparisons')].check_idx = first
                  /\ comparisons'[Len(comparisons')].balloon_number = i + 1
                  /\ unmatched_master' = unmatched_master
          ELSE /\ used_check_indices' = used_check_indices
               /\ comparisons' = comparisons
               /\ unmatched_master'
                     = Append(unmatched_master, [balloon_num |-> i + 1, midx |-> i])
    ]_vars

\* C11 witness: Phase 1 is over; one master dimension was paired although a
\* later check dimension, still free, has the same score, and another master
\* dimension was left for Phase 2
C11_Witness ==
    /\ pc = "phase2"
    /\ unmatched_master # <<>>
    /\ \E j \in PairedItems :
          \E c2 \in 0..(Len(check_dims) - 1) :
             /\ c2 > comparisons[j].check_idx
             /\ c2 \notin used_check_indices
             /\ Score(MasterOf(j), check_dims[c2 + 1]) = Score(MasterOf(j), CheckOf(j))

\* the only check dimension, with its value replaced by the master's value
CheckWithMasterValue == [check_dims[1] EXCEPT !.value = master_dims[1].value]

\* C12 (as claimed): a check dimension that, as the only candidate, is
\* accepted by the Phase-1 matcher when its value equals the master's is
\* still accepted with any other (non-null, non-zero) value, every other
\* field unchanged.
C12_ValueNeverRejects ==
    ( /\ pc = "phase2" /\ Len(master_dims) = 1 /\ Len(check_dims) = 1
      /\ master_dims[1].value # NULL
      /\ check_dims[1].value # NULL /\ check_dims[1].value # 0 ) =>
        (FindBestMatch(master_dims[1], <<CheckWithMasterValue>>, {}) # NULL
            => used_check_indices = {0})

(***************************************************************************)
(* Properties of the BOM diff                                              *)
(***************************************************************************)
S_BOM == <<"B", "O", "M">>

\* the returned items of the BOM diff with the given status
BomItems(st) == {j \in ItemIdx : comparisons[j].zone = S_BOM /\ comparisons[j].status = st}

\* the check parts carrying the item number of master part k
SameItem(k) ==
    {c \in 1..Len(check_parts) :
        Strip(check_parts[c].item_number) = Strip(master_parts[k].item_number)}

\* master parts whose item_number is absent from the check part list
AbsentFromCheck == {k \in 1..Len(master_parts) : SameItem(k) = {}}

\* master parts present in both lists with a differing field
DifferingParts ==
    {k \in 1..Len(master_parts) :
        \E c \in SameItem(k) :
            \/ master_parts[k].description # check_parts[c].description
            \/ master_parts[k].material # check_parts[c].material
            \/ master_parts[k].quantity # check_parts[c].quantity}

\* check parts whose item_number is absent from the master part list
AbsentFromMaster ==
    {c \in 1..Len(check_parts) :
        \A k \in 1..Len(master_parts) :
            Strip(check_parts[c].item_number) # Strip(master_parts[k].item_number)}

\* C13 (as claimed): the BOM diff appends exactly one missing item per
\* master part absent from the check list, one fail item per master part
\* present in both lists whose description, material or quantity differ and
\* one warning item per check part absent from the master; equal parts give
\* no item, and summary.bom_mismatches is the number of BOM items appended.
C13_BomDiffExact ==
    Returned =>
        /\ Cardinality(BomItems("missing")) = Cardinality(AbsentFromCheck)
        /\ Cardinality(BomItems("fail")) = Cardinality(DifferingParts)
        /\ Cardinality(BomItems("warning")) = Cardinality(AbsentFromMaster)
        /\ summary.bom_mismatches
              = Cardinality({j \in ItemIdx : comparisons[j].zone = S_BOM})

(***************************************************************************)
(* Properties of the returned regions                                      *)
(***************************************************************************)
\* the findings of the returned result, all three lists
Findings ==
    final_result.missing_dimensions \o final_result.missing_tolerances
        \o final_result.modified_values

\* C14 (as claimed): every non-null master_region and check_region of the
\* returned result is at least 10 pixels wide and 10 pixels high.
C14_RegionAtLeastTenPixels ==
    ReviewReturned =>
        \A k \in 1..Len(Findings) :
            /\ Findings[k].master_region # NoRegion
                  => (Findings[k].master_region.width >= 10
                      /\ Findings[k].master_region.height >= 10)
            /\ Findings[k].check_region # NoRegion
                  => (Findings[k].check_region.width >= 10
                      /\ Findings[k].check_region.height >= 10)

\* the rectangle lies inside an image of the given size
InsideImage(r, w, h) ==
    /\ 0 <= r.x
    /\ 0 <= r.y
    /\ r.x + r.width <= w
    /\ r.y + r.height <= h

\* C15: every non-null master_region and check_region of the returned
\* result satisfies 0 <= x, 0 <= y, x + width <= image width and
\* y + height <= image height of its drawing.
C15_RegionInsideImage ==
    ReviewReturned =>
        \A k \in 1..Len(Findings) :
            /\ Findings[k].master_region # NoRegion
                  => InsideImage(Findings[k].master_region, img_dims[1], img_dims[2])
            /\ Findings[k].check_region # NoRegion
                  => InsideImage(Findings[k].check_region, img_dims[3], img_dims[4])

\* C15 witness: the merge round wrote a master region that starts above
\* 100 percent and is wider than the image, OCR found nothing, and the
\* region was returned
C15_Witness ==
    /\ ReviewReturned
    /\ merge_result.kind = "dict"
    /\ \E k \in 1..Len(merge_result.modified_values) :
          /\ merge_result.modified_values[k].master_region # NoRegion
          /\ merge_result.modified_values[k].master_region.x > 10000
          /\ merge_result.modified_values[k].master_region.width > 10000
    /\ \E k \in 1..Len(Findings) :
          /\ Findings[k].master_detection_method = "ai_fallback"
          /\ Findings[k].master_region # NoRegion

(***************************************************************************)
(* Properties of the three rounds                                          *)
(***************************************************************************)
\* C16 (as claimed): run_review never raises to its caller.
C16_ReviewNeverRaises == rpc # "raised"

\* the latest round whose text parsed as JSON, NoneR when none did
LatestParsed ==
    IF merge_result.kind # "none" THEN merge_result
    ELSE IF gemini_result.kind # "none" THEN gemini_result
    ELSE claude_result

\* every finding of `items` has the key fields of a finding of `source`
DrawnFrom(items, source, f) ==
    \A k \in 1..Len(items) :
        \E j \in 1..Len(source) :
            /\ ItemGet(items[k], f) = ItemGet(source[j], f)
            /\ items[k].location = source[j].location

\* C17 (as claimed): the returned findings are those of the latest round
\* that yielded parseable JSON (round 3, else round 2, else round 1); if no
\* round did, the three lists are empty and summary is the diagnostic.
C17_FindingsOfLatestParsedRound ==
    ReviewReturned =>
        /\ DrawnFrom(final_result.missing_dimensions, LatestParsed.missing_dimensions, "value")
        /\ DrawnFrom(final_result.missing_tolerances, LatestParsed.missing_tolerances, "value")
        /\ DrawnFrom(final_result.modified_values, LatestParsed.modified_values,
                     "master_value")
        /\ LatestParsed.kind = "none" => final_result.summary.src = "error"

\* round 2 failed: provider error or empty response
Round2Failed == gemini_result = NoneR /\ gemini_raw \in {"error", ""}

AllowedWaits == <<30, 60, 120, 240>>

\* C19: the extraction call is attempted at most 5 times; every attempt but
\* the last ended in a rate-limit error and was followed by a wait of
\* 30 * 2^n seconds (30, 60, 120, 240) before the next one; any other error,
\* and a rate-limit error on the 5th attempt, ends the phase with a failure
\* and without a further wait.
C19_RetryPolicy ==
    /\ Len(outcomes) <= 5
    /\ \A k \in 1..(Len(outcomes) - 1) : outcomes[k] = "rate_limit"
    /\ Len(sleeps) <= Len(AllowedWaits)
    /\ \A n \in 1..Len(sleeps) : sleeps[n] = AllowedWaits[n]
    /\ outcomes # <<>> =>
          /\ Len(sleeps) = IF ing_pc = "calling" THEN Len(outcomes) ELSE Len(outcomes) - 1
          /\ outcomes[Len(outcomes)] = "error" => ing_pc = "failed"
          /\ (Len(outcomes) = 5 /\ outcomes[5] = "rate_limit") => ing_pc = "failed"
          /\ ing_pc = "calling" => outcomes[Len(outcomes)] = "rate_limit"

\* C19 witness: four rate-limited attempts, each followed by its wait, then a
\* rate-limit error on the fifth attempt
C19_Witness ==
    /\ ing_pc = "failed"
    /\ outcomes = <<"rate_limit", "rate_limit", "rate_limit", "rate_limit", "rate_limit">>
    /\ sleeps = AllowedWaits

\* the call returned a response
ResponseReceived == outcomes # <<>> /\ outcomes[Len(outcomes)] = "ok"

\* json.loads rejects the text and the repair pass recovers nothing
Unparseable(text) == ~JsonLoads(text).ok /\ FixJson(text) = EmptyDict

\* C20 (as claimed): if the response cannot be parsed as JSON even after the
\* repair pass, ingestion fails and no machine state is produced.
C20_UnparseableIsFatal ==
    (ResponseReceived /\ Unparseable(response)) => ing_pc \in {"parsing", "failed"}

\* C24 (as claimed): the summary of the returned result is recomputed from
\* the counts after deduplication, so it agrees with the lengths of the
\* three returned lists.
C24_SummaryAgreesWithCounts ==
    ReviewReturned =>
        /\ final_result.summary.md = Len(final_result.missing_dimensions)
        /\ final_result.summary.mt = Len(final_result.missing_tolerances)
        /\ final_result.summary.mv = Len(final_result.modified_values)

\* C27 (as claimed): in the returned comparisons each check dimension is
\* paired with at most one master dimension, Phase 1 and the LLM fallback
\* taken together, whatever the LLM answered.
C27_CheckPairedAtMostOnce ==
    Returned =>
        \A a \in PairedItems, b \in PairedItems :
            comparisons[a].check_idx = comparisons[b].check_idx
                => comparisons[a].master_idx = comparisons[b].master_idx

\* the tolerance issue Phase 2.5 records when it compares the master
\* tolerances of item j with those of the check dimension paired in item j
OwnToleranceIssue(j) ==
    LET r == CompareTolerances(
                 [upper_tol |-> comparisons[j].master_upper_tol,
                  lower_tol |-> comparisons[j].master_lower_tol],
                 [upper_tol |-> CheckOf(j).upper_tol, lower_tol |-> CheckOf(j).lower_tol])
    IN IF r.status # "none" THEN r.issue ELSE ""

\* C28 (as claimed): the tolerance comparison of a matched pair uses the
\* tolerances of the check dimension matched to that master dimension, also
\* when several check dimensions have the same coordinates.
C28_ToleranceOfMatchedCheck ==
    Returned =>
        \A j \in PairedItems : comparisons[j].tolerance_issue = OwnToleranceIssue(j)

\* C29 (as claimed): in the returned summary pass + fail + warning +
\* deviation + missing equals total_dimensions, the number of returned items.
C29_BucketsSumToTotal ==
    Returned =>
        /\ summary.total_dimensions = Len(comparisons)
        /\ summary.pass + summary.fail + summary.warning + summary.deviation
              + summary.missing = summary.total_dimensions

(***************************************************************************)
(* Phases 3 to 3f of run_ingestor on one dimension                         *)
(***************************************************************************)
DIGITS == <<"0", "1", "2", "3", "4", "5", "6", "7", "8", "9">>

IsDigit(c) == \E n \in 1..10 : DIGITS[n] = c

DigitVal(c) == (CHOOSE n \in 1..10 : DIGITS[n] = c) - 1

\* the letters the value strings are written with
LETTERS == {"O", "o", "l", "I", "b", "B", "S", "Z", "H", "R", "a", "c", "e"}

\* \w of the re module
IsWordChar(c) == IsDigit(c) \/ c \in LETTERS \/ c = "_"

\* one (pattern, replacement) pair: a single character ch between a
\* lookbehind pre and a lookahead post
Pattern(pre, ch, post, rep) == [pre |-> pre, ch |-> ch, post |-> post, rep |-> rep]

replacements ==
    << Pattern("b", "O", "b", "0"),
       Pattern("b", "o", "b", "0"),
       Pattern("any", "O", "dot", "0"),
       Pattern("digit", "O", "digit", "0"),
       Pattern("start", "O", "digit", "0"),
       Pattern("digit", "O", "end", "0"),
       Pattern("dot", "O", "digit", "0"),
       Pattern("dot", "O", "end", "0"),
       Pattern("b", "l", "b", "1"),
       Pattern("b", "I", "b", "1"),
       Pattern("any", "l", "dot", "1"),
       Pattern("any", "I", "dot", "1"),
       Pattern("start", "l", "digit", "1"),
       Pattern("start", "I", "digit", "1"),
       Pattern("dot", "l", "any", "1"),
       Pattern("dot", "I", "any", "1"),
       Pattern("digit", "b", "digit_dot", "6"),
       Pattern("digit", "b", "end", "6"),
       Pattern("digit", "B", "digit_dot", "8"),
       Pattern("digit", "S", "digit_dot", "5"),
       Pattern("digit", "Z", "digit_dot", "2") >>

\* what stands before position pos satisfies the pattern: \b, (?<=\d), ^, (?<=\.)
PreOk(s, pos, pre) ==
    CASE pre = "any" -> TRUE
      [] pre = "b" -> pos = 1 \/ ~IsWordChar(s[pos - 1])
      [] pre = "digit" -> pos > 1 /\ IsDigit(s[pos - 1])
      [] pre = "start" -> pos = 1
      [] pre = "dot" -> pos > 1 /\ s[pos - 1] = "."

\* what stands after position pos satisfies the pattern: \b, (?=\.), (?=\d), $, (?=[\d.])
PostOk(s, pos, post) ==
    CASE post = "any" -> TRUE
      [] post = "b" -> pos = Len(s) \/ ~IsWordChar(s[pos + 1])
      [] post = "dot" -> pos < Len(s) /\ s[pos + 1] = "."
      [] post = "digit" -> pos < Len(s) /\ IsDigit(s[pos + 1])
      [] post = "end" -> pos = Len(s)
      [] post = "digit_dot" -> pos < Len(s) /\ (IsDigit(s[pos + 1]) \/ s[pos + 1] = ".")

\* re.sub(pattern, replacement, s)
ReSub(pat, s) ==
    [pos \in 1..Len(s) |->
        IF s[pos] = pat.ch /\ PreOk(s, pos, pat.pre) /\ PostOk(s, pos, pat.post)
        THEN pat.rep ELSE s[pos]]

\* the loop over replacements, from the k-th pair on
RECURSIVE ApplyReplacements(_, _)
ApplyReplacements(s, k) ==
    IF k > Len(replacements) THEN s
    ELSE ApplyReplacements(ReSub(replacements[k], s), k + 1)

\* number of characters of s from position pos on that are digits (want) or
\* spaces (not want)
RECURSIVE RunLength(_, _, _)
RunLength(s, pos, want) ==
    IF pos > Len(s) THEN 0
    ELSE IF (want /\ IsDigit(s[pos])) \/ (~want /\ s[pos] = " ")
         THEN 1 + RunLength(s, pos + 1, want)
         ELSE 0

\* re.match(r'^(\d+)\s+(\d{1,3})$', s) and the rewrite to "group1.group2"
SpaceAsDecimal(s) ==
    LET a == RunLength(s, 1, TRUE)
        b == RunLength(s, a + 1, FALSE)
        c == RunLength(s, a + b + 1, TRUE)
    IN IF a >= 1 /\ b >= 1 /\ c >= 1 /\ c <= 3 /\ a + b + c = Len(s)
       THEN SubSeq(s, 1, a) \o <<".">> \o SubSeq(s, a + b + 1, Len(s))
       ELSE s

\* re.sub(r'[^\d.]', '', s)
RemoveNonNumeric(s) == SelectSeq(s, LAMBDA c : IsDigit(c) \/ c = ".")

\* parts[0] + '.' + ''.join(parts[1:]) when s has more than one '.'
JoinDecimals(s) ==
    LET dots == {pos \in 1..Len(s) : s[pos] = "."}
    IN IF Cardinality(dots) > 1
       THEN LET first == CHOOSE pos \in dots : \A q \in dots : pos <= q
            IN SubSeq(s, 1, first)
                 \o SelectSeq(SubSeq(s, first + 1, Len(s)), LAMBDA c : c # ".")
       ELSE s

\* int() of a string of digits, the empty string counting as 0
RECURSIVE DigitsValue(_)
DigitsValue(s) ==
    IF s = <<>> THEN 0
    ELSE 10 * DigitsValue(SubSeq(s, 1, Len(s) - 1)) + DigitVal(s[Len(s)])

\* float(s) of digits with at most one '.', in thousandths
ParseFloat(s) ==
    LET dots == {pos \in 1..Len(s) : s[pos] = "."}
        dot == IF dots = {} THEN Len(s) + 1 ELSE CHOOSE pos \in dots : TRUE
        frac == SubSeq(SubSeq(s, dot + 1, Len(s)) \o <<"0", "0", "0">>, 1, 3)
    IN 1000 * DigitsValue(SubSeq(s, 1, dot - 1)) + DigitsValue(frac)

\* _normalize_dimension_value: the float in thousandths, NULL for None
NormalizeDimensionValue(value_str) ==
    IF value_str = PyNone THEN NULL
    ELSE LET s0 == Strip(value_str)
             s1 == ApplyReplacements(s0, 1)
             s2 == SpaceAsDecimal(s1)
             s3 == RemoveNonNumeric(s2)
             s4 == JoinDecimals(s3)
         IN IF s0 = <<>> THEN NULL
            ELSE IF ~\E pos \in 1..Len(s4) : IsDigit(s4[pos]) THEN NULL
            ELSE ParseFloat(s4)

\* number of digits after the '.' in str() of the float parsed from s
RECURSIVE FracDigits(_)
FracDigits(s) ==
    LET dots == {pos \in 1..Len(s) : s[pos] = "."}
    IN IF dots = {} THEN 0
       ELSE IF s[Len(s)] = "0" \/ s[Len(s)] = "."
            THEN FracDigits(SubSeq(s, 1, Len(s) - 1))
            ELSE Len(s) - (CHOOSE pos \in dots : TRUE)

\* the digits and the one '.' that float() is given
NumericText(value_str) ==
    JoinDecimals(RemoveNonNumeric(SpaceAsDecimal(ApplyReplacements(Strip(value_str), 1))))

\* [A-DF-HJ-NP-RT-WY-Zaceghjkmnpqrtuvwxyz] among the letters of LETTERS
RedFlagLetters == {"B", "Z", "H", "R", "a", "c", "e"}

\* a coordinate as the response gives it: a number (in thousandths), null,
\* or a string that float() rejects
Num(n) == [kind |-> "num", n |-> n]
NoneVal == [kind |-> "none", n |-> 0]
TextVal == [kind |-> "text", n |-> 0]

\* "coordinates" missing, null or {}
NoCoords == [x |-> NoneVal, y |-> NoneVal, empty |-> TRUE]

Coords(x, y) == [x |-> x, y |-> y, empty |-> FALSE]

XY(x, y) == [x |-> x, y |-> y]

\* _scale_coordinates without the clamp to the image bounds
ScaleCoordinatesNoClamp(coords, img_width, img_height) ==
    IF coords.empty THEN XY(0, 0)
    ELSE IF coords.x.kind = "text" \/ coords.y.kind = "text" THEN XY(0, 0)
    ELSE LET x == coords.x.n
             y == coords.y.n
         IN IF 0 <= x /\ x <= 100000 /\ 0 <= y /\ y <= 100000
            THEN XY(TruncDiv(x * img_width, 100000), TruncDiv(y * img_height, 100000))
            ELSE XY(TruncDiv(x, 1000), TruncDiv(y, 1000))

\* _scale_coordinates: percentages (both inside 0..100) are scaled to
\* pixels, anything else is taken as pixels; int() truncates; the result is
\* clamped to the image
ScaleCoordinates(coords, img_width, img_height) ==
    IF coords.empty THEN XY(0, 0)
    ELSE IF coords.x.kind = "text" \/ coords.y.kind = "text" THEN XY(0, 0)
    ELSE LET x == coords.x.n
             y == coords.y.n
             px == IF 0 <= x /\ x <= 100000 /\ 0 <= y /\ y <= 100000
                   THEN XY(TruncDiv(x * img_width, 100000), TruncDiv(y * img_height, 100000))
                   ELSE XY(TruncDiv(x, 1000), TruncDiv(y, 1000))
         IN XY(Max2(0, Min2(px.x, img_width - 1)), Max2(0, Min2(px.y, img_height - 1)))

\* radius of the search circles of find_nearest_content: range(10, 100, 10)
SearchRadii == {10, 50, 90}

\* <<cos, sin>> of the 8 search directions, in thousandths
SearchDirections ==
    { <<1000, 0>>, <<707, 707>>, <<0, 1000>>, <<-707, 707>>,
      <<-1000, 0>>, <<-707, -707>>, <<0, -1000>>, <<707, -707>> }

\* the point find_nearest_content probes at a radius in a direction,
\* clamped to the opened image
ProbePoint(x, y, radius, dir, actual_width, actual_height) ==
    XY(Max2(0, Min2(TruncDiv(x * 1000 + radius * dir[1], 1000), actual_width - 1)),
       Max2(0, Min2(TruncDiv(y * 1000 + radius * dir[2], 1000), actual_height - 1)))

\* the coordinates in the frame of the opened image, clamped to it
ToActual(c, size, asize) ==
    LET x == IF asize # size /\ size[1] > 0 THEN TruncDiv(c.x * asize[1], size[1]) ELSE c.x
        y == IF asize # size /\ size[2] > 0 THEN TruncDiv(c.y * asize[2], size[2]) ELSE c.y
    IN XY(Max2(0, Min2(x, asize[1] - 1)), Max2(0, Min2(y, asize[2] - 1)))

\* a relocated point scaled back to the frame of img_size
ScaleBack(p, size, asize) ==
    XY(IF asize[1] # size[1] THEN TruncDiv(p.x * size[1], asize[1]) ELSE p.x,
       IF asize[2] # size[2] THEN TruncDiv(p.y * size[2], asize[2]) ELSE p.y)

\* the dimension dict of the response: value as a string (PyNone: null)
RawDim(value, coords) ==
    [raw_value |-> value, value |-> NULL, value_invalid |-> FALSE,
     value_normalized |-> FALSE, raw_coordinates |-> coords, coordinates |-> XY(0, 0),
     coordinate_adjusted |-> FALSE, ocr_verified |-> "None", validation_failed |-> FALSE]

\* _validate_dimension_pattern marks the dimension: letters in a value that
\* was left as the raw string, or more than 3 decimals in the float
PatternFails(d) ==
    IF d.raw_value = PyNone THEN FALSE
    ELSE IF d.value_invalid
         THEN \E pos \in 1..Len(d.raw_value) : d.raw_value[pos] \in RedFlagLetters
         ELSE FracDigits(NumericText(d.raw_value)) > 3

\* MachineState(**extracted).model_dump(): the fields of Dimension, nothing else
ModelDump(d) == [d EXCEPT !.ocr_verified = "None", !.validation_failed = FALSE,
                          !.value_invalid = FALSE, !.value_normalized = FALSE,
                          !.coordinate_adjusted = FALSE]

\* run_ingestor has parsed a response holding this dimension
BindStart(value, coords, size, asize) ==
    /\ bind_pc = "bind"
    /\ bound_dim = RawDim(value, coords)
    /\ img_size = size
    /\ actual_size = asize
    /\ state_dim = <<>>

\* phase 3, _bind_dimensions_to_entities
BindDimension ==
    /\ bind_pc = "bind"
    /\ LET normalized == NormalizeDimensionValue(bound_dim.raw_value)
           d1 == IF bound_dim.raw_value = PyNone THEN bound_dim
                 ELSE IF normalized # NULL
                      THEN [bound_dim EXCEPT !.value = normalized,
                               !.value_normalized =
                                   (NumericText(bound_dim.raw_value) # bound_dim.raw_value)]
                      ELSE [bound_dim EXCEPT !.value_invalid = TRUE]
           d2 == [d1 EXCEPT !.validation_failed = PatternFails(d1)]
       IN bound_dim' = [d2 EXCEPT !.coordinates =
                           ScaleCoordinates(d2.raw_coordinates, img_size[1], img_size[2])]
    /\ bind_pc' = "adjust"
    /\ UNCHANGED <<img_size, actual_size, state_dim>>
    /\ UNCHANGED <<cmpVars, revVars, ingVars, graphVars>>

\* phase 3b, the image cannot be opened: the dimensions are returned as they are
AdjustSkipped ==
    /\ bind_pc = "adjust"
    /\ actual_size = <<0, 0>>
    /\ bind_pc' = "ocr"
    /\ UNCHANGED <<bound_dim, img_size, actual_size, state_dim>>
    /\ UNCHANGED <<cmpVars, revVars, ingVars, graphVars>>

\* phase 3b, the point is on content, or no probe finds content
AdjustKeeps ==
    /\ bind_pc = "adjust"
    /\ actual_size # <<0, 0>>
    /\ bind_pc' = "ocr"
    /\ UNCHANGED <<bound_dim, img_size, actual_size, state_dim>>
    /\ UNCHANGED <<cmpVars, revVars, ingVars, graphVars>>

\* phase 3b, the point is on white space and a probe finds content
AdjustRelocates ==
    /\ bind_pc = "adjust"
    /\ actual_size # <<0, 0>>
    /\ \E radius \in SearchRadii, dir \in SearchDirections :
          LET at == ToActual(bound_dim.coordinates, img_size, actual_size)
              new == ProbePoint(at.x, at.y, radius, dir, actual_size[1], actual_size[2])
          IN /\ new # at
             /\ bound_dim' = [bound_dim EXCEPT
                                 !.coordinates = ScaleBack(new, img_size, actual_size),
                                 !.coordinate_adjusted = TRUE]
    /\ bind_pc' = "ocr"
    /\ UNCHANGED <<img_size, actual_size, state_dim>>
    /\ UNCHANGED <<cmpVars, revVars, ingVars, graphVars>>

\* phase 3c, _verify_dimensions_with_ocr: no mark when OCR fails or the value
\* is no float, else True or False as the value is found in the OCR text
VerifyWithOcr ==
    /\ bind_pc = "ocr"
    /\ \E found \in {"None", "True", "False"} :
          /\ (bound_dim.value = NULL) => found = "None"
          /\ bound_dim' = [bound_dim EXCEPT !.ocr_verified = found]
    /\ bind_pc' = "build"
    /\ UNCHANGED <<img_size, actual_size, state_dim>>
    /\ UNCHANGED <<cmpVars, revVars, ingVars, graphVars>>

\* the machine state is built: a rescan of a drawing that has a state takes
\* the dicts as they are; otherwise MachineState validates them, and when it
\* raises (here, or on another part of extracted) the raw dicts are used
BuildState ==
    /\ bind_pc = "build"
    /\ \E rescan \in BOOLEAN, rest_raises \in BOOLEAN :
          state_dim' = IF rescan \/ rest_raises \/ bound_dim.value_invalid
                       THEN bound_dim
                       ELSE ModelDump(bound_dim)
    /\ bind_pc' = "returned"
    /\ UNCHANGED <<bound_dim, img_size, actual_size>>
    /\ UNCHANGED <<cmpVars, revVars, ingVars, graphVars>>

NextBind ==
    \/ BindDimension
    \/ AdjustSkipped
    \/ AdjustKeeps
    \/ AdjustRelocates
    \/ VerifyWithOcr
    \/ BuildState

S_HALF == <<"1", "/", "2">>
S_ONE_HALF == <<"1", " ", "1", "/", "2">>
S_3_4 == <<"3", "/", "4">>
S_12_5 == <<"1", "2", ".", "5">>
S_4_79 == <<"4", " ", "7", "9">>
S_O_5 == <<"O", ".", "5">>
S_2b5 == <<"2", "b", "5">>
S_abc == <<"a", "b", "c">>
S_1_2_3 == <<"1", ".", "2", ".", "3">>
S_R5 == <<"R", "5">>
S_LONG == <<"1", ".", "2", "3", "4", "5">>
S_DASH == <<"-", "-">>

\* the value strings a response may carry
ValueSet ==
    {PyNone, <<>>, S_HALF, S_ONE_HALF, S_3_4, S_12_5, S_4_79, S_O_5, S_2b5, S_abc,
     S_1_2_3, S_R5, S_LONG, S_DASH}

\* x and y a response may carry: negative, percentages, pixel values, far
\* out of range, null, not a number
RawXSet == {Num(-5000), Num(0), Num(50500), Num(100000), Num(100500), Num(1500000),
            NoneVal, TextVal}
RawYSet == {Num(-1000), Num(99900), Num(900000), NoneVal}

CoordsSet == {NoCoords} \cup {Coords(x, y) : x \in RawXSet, y \in RawYSet}

\* img_size, and the size of the file phase 3b opens (<<0, 0>>: it cannot)
ImgSizeSet == {<<1000, 800>>, <<120, 90>>}
ActualSizeSet == {<<0, 0>>, <<1000, 800>>, <<60, 45>>}

InitBind ==
    /\ \E value \in ValueSet, coords \in CoordsSet, size \in ImgSizeSet,
          asize \in ActualSizeSet : BindStart(value, coords, size, asize)
    /\ CmpIdle
    /\ RevIdle
    /\ IngIdle
    /\ GraphIdle

SpecBind == InitBind /\ [][NextBind]_vars

\* C25: a value of the form n/m is normalized to n divided by m, and a value
\* of the form "a n/m" to a + n/m: "1/2" gives 0.5, "1 1/2" gives 1.5 and
\* "3/4" gives 0.75.
C25_FractionsParsed ==
    (bind_pc # "bind" /\ bind_pc # "idle") =>
        /\ (bound_dim.raw_value = S_HALF => bound_dim.value = 500)
        /\ (bound_dim.raw_value = S_ONE_HALF => bound_dim.value = 1500)
        /\ (bound_dim.raw_value = S_3_4 => bound_dim.value = 750)

\* C23: the dimension of the returned machine state lies inside the image:
\* 0 <= x < width and 0 <= y < height, whatever the response gave and
\* whether or not phase 3b moved the point.
C23_CoordinatesInsideImage ==
    bind_pc = "returned" =>
        /\ 0 <= state_dim.coordinates.x /\ state_dim.coordinates.x < img_size[1]
        /\ 0 <= state_dim.coordinates.y /\ state_dim.coordinates.y < img_size[2]

\* a point given in pixels far outside the image was clamped, moved by
\* phase 3b on a file of another size, and returned
C23_Witness ==
    /\ bind_pc = "returned"
    /\ bound_dim.raw_coordinates = Coords(Num(1500000), Num(900000))
    /\ state_dim.coordinate_adjusted \/ bound_dim.coordinate_adjusted
    /\ actual_size # img_size

\* C26: a dimension marked ocr_verified = False or validation_failed carries
\* the mark in the returned machine state, so that the matcher scores it 2
\* points lower for each mark.
C26_MarksReachComparator ==
    bind_pc = "returned" =>
        /\ (bound_dim.ocr_verified = "False" => state_dim.ocr_verified = "False")
        /\ (bound_dim.validation_failed => state_dim.validation_failed)
        /\ \A score \in 0..9 :
              ValidationPenalty(state_dim, OcrPenalty(state_dim, score))
                  = ValidationPenalty(bound_dim, OcrPenalty(bound_dim, score))

(***************************************************************************)
(* The audit graph: ingestor, sherlock, physicist, reflexion, reporter     *)
(***************************************************************************)
MAX_REFLEXION == 3
WEIGHT_DISCREPANCY_THRESHOLD == 5

\* passes of the loop the model follows before it stops extending a run
MaxPasses == 5

\* a finding: its source agent, its type, the two weights of its evidence
\* (0: absent) and whether it carries coordinates
Finding(agent, type, calculated, specified, coords) ==
    [source_agent |-> agent, finding_type |-> type, calculated |-> calculated,
     specified |-> specified, coords |-> coords]

\* what run_physicist may add: a weight off by more than 500 %, with and
\* without coordinates, one off by exactly 500 %, one without a specified weight
PhysicistFindings ==
    { Finding("physicist", "PHYSICS_FAIL", 61, 10, TRUE),
      Finding("physicist", "PHYSICS_FAIL", 100, 10, FALSE),
      Finding("physicist", "PHYSICS_FAIL", 60, 10, TRUE),
      Finding("physicist", "PHYSICS_FAIL", 100, 0, FALSE) }

\* what run_sherlock may add
SherlockFindings == { Finding("sherlock", "MISMATCH", 100, 10, TRUE) }

\* the finding is a physicist PHYSICS_FAIL whose weights differ by more
\* than the threshold
Extreme(f) ==
    /\ f.source_agent = "physicist"
    /\ f.finding_type = "PHYSICS_FAIL"
    /\ f.calculated # 0
    /\ f.specified # 0
    /\ f.specified > 0
    /\ Abs(f.calculated - f.specified) > WEIGHT_DISCREPANCY_THRESHOLD * f.specified

\* check_reflexion without the test of reflexion_count
CheckReflexionUnbounded(count, fs) ==
    IF \E f \in fs : Extreme(f) THEN "rescan" ELSE "report"

\* check_reflexion, the conditional edge after physicist
CheckReflexion(count, fs) ==
    IF count >= MAX_REFLEXION THEN "report"
    ELSE IF \E f \in fs : Extreme(f) THEN "rescan"
    ELSE "report"

\* run_audit invokes the graph
AuditStart ==
    /\ node = "ingestor"
    /\ ingestion = [master |-> "pending", check |-> "pending"]
    /\ reflexion_count = 0
    /\ crop_region = FALSE
    /\ findings = {}
    /\ agent_log = <<>>

\* ingestor node: run_ingestor returns, crop_region is cleared
IngestorNode ==
    /\ node = "ingestor"
    /\ agent_log' = Append(agent_log, IF crop_region THEN "rescan" ELSE "full_extraction")
    /\ crop_region' = FALSE
    /\ node' = "sherlock"
    /\ UNCHANGED <<ingestion, reflexion_count, findings>>
    /\ UNCHANGED <<cmpVars, revVars, ingVars, bindVars>>

\* sherlock node: findings are appended
SherlockNode ==
    /\ node = "sherlock"
    /\ \E new \in SUBSET SherlockFindings : findings' = findings \cup new
    /\ agent_log' = Append(agent_log, "cross_verification")
    /\ node' = "physicist"
    /\ UNCHANGED <<ingestion, reflexion_count, crop_region>>
    /\ UNCHANGED <<cmpVars, revVars, ingVars, bindVars>>

\* physicist node, then the conditional edge reflexion_router
PhysicistNode ==
    /\ node = "physicist"
    /\ \E new \in SUBSET PhysicistFindings :
          /\ findings' = findings \cup new
          /\ node' = IF CheckReflexion(reflexion_count, findings \cup new) = "rescan"
                     THEN "reflexion" ELSE "reporter"
    /\ agent_log' = Append(agent_log, "physics_validation")
    /\ UNCHANGED <<ingestion, reflexion_count, crop_region>>
    /\ UNCHANGED <<cmpVars, revVars, ingVars, bindVars>>

\* reflexion node, prepare_rescan: the count goes up, the crop region is set
\* around the first physicist finding that has coordinates
ReflexionNode ==
    /\ node = "reflexion"
    /\ reflexion_count < MaxPasses
    /\ reflexion_count' = reflexion_count + 1
    /\ crop_region' = (\E f \in findings : /\ f.source_agent = "physicist"
                                           /\ f.finding_type = "PHYSICS_FAIL"
                                           /\ f.coords)
    /\ agent_log' = Append(agent_log, "prepare_rescan")
    /\ node' = "ingestor"
    /\ UNCHANGED <<ingestion, findings>>
    /\ UNCHANGED <<cmpVars, revVars, ingVars, bindVars>>

\* reporter node, then END
ReporterNode ==
    /\ node = "reporter"
    /\ agent_log' = Append(agent_log, "report_generation")
    /\ node' = "end"
    /\ UNCHANGED <<ingestion, reflexion_count, crop_region, findings>>
    /\ UNCHANGED <<cmpVars, revVars, ingVars, bindVars>>

\* a node that calls a model raises: nothing in the graph catches it and
\* ainvoke raises
NodeRaises ==
    /\ node \in {"ingestor", "sherlock", "physicist", "reporter"}
    /\ node' = "raised"
    /\ UNCHANGED <<ingestion, reflexion_count, crop_region, findings, agent_log>>
    /\ UNCHANGED <<cmpVars, revVars, ingVars, bindVars>>

NextAudit ==
    \/ IngestorNode
    \/ SherlockNode
    \/ PhysicistNode
    \/ ReflexionNode
    \/ ReporterNode
    \/ NodeRaises

InitAudit ==
    /\ AuditStart
    /\ CmpIdle
    /\ RevIdle
    /\ IngIdle
    /\ BindIdle

\* ainvoke runs the graph until END or an exception: a node that can run, runs
SpecAudit == InitAudit /\ [][NextAudit]_vars /\ WF_vars(NextAudit)

\* number of entries of agent_log with the given action
CountLog(action) == Cardinality({k \in 1..Len(agent_log) : agent_log[k] = action})

\* C30: the reflexion loop terminates: reflexion_count never exceeds 3, the
\* ingestor runs at most 3 times after its first run, a run that hits the
\* limit goes on to the reporter, and every run ends (at END after the
\* reporter, or with the exception of a node).
C30_ReflexionTerminates ==
    /\ [](reflexion_count <= MAX_REFLEXION)
    /\ [](CountLog("prepare_rescan") <= MAX_REFLEXION)
    /\ [](CountLog("rescan") + CountLog("full_extraction") <= MAX_REFLEXION + 1)
    /\ [](node = "end" => CountLog("report_generation") = 1)
    /\ <>(node \in {"end", "raised"})

\* three rescans were made, the finding that triggers a rescan is still
\* there, and the run has passed the reporter
C30_Witness ==
    /\ node = "end"
    /\ reflexion_count = MAX_REFLEXION
    /\ CountLog("prepare_rescan") = MAX_REFLEXION
    /\ \E f \in findings : Extreme(f)

(***************************************************************************)
(* The comparison graph: master_ingestor, check_ingestor, comparator,      *)
(* sherlock, reporter                                                      *)
(***************************************************************************)
\* longest dimension list an ingestion of the comparison graph returns
MaxGraphDims == 1

\* what run_comparator works on besides the two dimension lists and its position
cmpWork == <<i, used_check_indices, unmatched_master, llm_status, matched_master,
             comparisons, gdt_issues, bom_mismatches, summary,
             master_gdt, check_gdt, master_parts, check_parts>>

\* _has_valid_extraction, on a machine state without a part list
HasValidExtraction(dims) == Len(dims) > 0

\* run_comparison invokes the graph; cached is the master machine state the
\* session holds (<<>>: none)
CompareStart(cached) ==
    /\ node = "master_ingestor"
    /\ ingestion = [master |-> "pending", check |-> "pending"]
    /\ reflexion_count = 0
    /\ crop_region = FALSE
    /\ findings = {}
    /\ agent_log = <<>>
    /\ master_dims = cached
    /\ check_dims = <<>>
    /\ pc = "idle"
    /\ i = 0
    /\ used_check_indices = {}
    /\ unmatched_master = <<>>
    /\ llm_status = "not_called"
    /\ matched_master = {}
    /\ comparisons = <<>>
    /\ gdt_issues = <<>>
    /\ bom_mismatches = 0
    /\ summary = EmptySummary
    /\ master_gdt = <<>>
    /\ check_gdt = <<>>
    /\ master_parts = <<>>
    /\ check_parts = <<>>

\* master_ingestor_node: the cached extraction is reused
MasterCached ==
    /\ node = "master_ingestor"
    /\ ingestion.master = "pending"
    /\ HasValidExtraction(master_dims)
    /\ ingestion' = [ingestion EXCEPT !.master = "cached"]
    /\ node' = "check_ingestor"
    /\ UNCHANGED <<reflexion_count, crop_region, findings, agent_log>>
    /\ UNCHANGED <<cmpVars, revVars, ingVars, bindVars>>

\* master_ingestor_node awaits run_ingestor
MasterIngestStarts ==
    /\ node = "master_ingestor"
    /\ ingestion.master = "pending"
    /\ ~HasValidExtraction(master_dims)
    /\ ingestion' = [ingestion EXCEPT !.master = "running"]
    /\ UNCHANGED <<node, reflexion_count, crop_region, findings, agent_log>>
    /\ UNCHANGED <<cmpVars, revVars, ingVars, bindVars>>

\* run_ingestor returns the master machine state; the edge leads to check_ingestor
MasterIngestReturns ==
    /\ node = "master_ingestor"
    /\ ingestion.master = "running"
    /\ \E mds \in SeqsUpTo(MasterDimSet, MaxGraphDims) : master_dims' = mds
    /\ ingestion' = [ingestion EXCEPT !.master = "done"]
    /\ agent_log' = Append(agent_log, "master_extraction")
    /\ node' = "check_ingestor"
    /\ UNCHANGED <<check_dims, pc, cmpWork>>
    /\ UNCHANGED <<reflexion_count, crop_region, findings>>
    /\ UNCHANGED <<revVars, ingVars, bindVars>>

\* run_ingestor raises for the master: the node has no handler, ainvoke raises
MasterIngestRaises ==
    /\ node = "master_ingestor"
    /\ ingestion.master = "running"
    /\ ingestion' = [ingestion EXCEPT !.master = "raised"]
    /\ node' = "raised"
    /\ UNCHANGED <<reflexion_count, crop_region, findings, agent_log>>
    /\ UNCHANGED <<cmpVars, revVars, ingVars, bindVars>>

\* check_ingestor_node: the path is empty or the file does not exist
CheckFileMissing ==
    /\ node = "check_ingestor"
    /\ ingestion.check = "pending"
    /\ check_dims' = <<>>
    /\ ingestion' = [ingestion EXCEPT !.check = "failed"]
    /\ node' = "comparator"
    /\ UNCHANGED <<master_dims, pc, cmpWork>>
    /\ UNCHANGED <<reflexion_count, crop_region, findings, agent_log>>
    /\ UNCHANGED <<revVars, ingVars, bindVars>>

\* check_ingestor_node awaits run_ingestor
CheckIngestStarts ==
    /\ node = "check_ingestor"
    /\ ingestion.check = "pending"
    /\ ingestion' = [ingestion EXCEPT !.check = "running"]
    /\ UNCHANGED <<node, reflexion_count, crop_region, findings, agent_log>>
    /\ UNCHANGED <<cmpVars, revVars, ingVars, bindVars>>

\* run_ingestor returns the check machine state
CheckIngestReturns ==
    /\ node = "check_ingestor"
    /\ ingestion.check = "running"
    /\ \E cds \in SeqsUpTo(CheckDimSet, MaxGraphDims) : check_dims' = cds
    /\ ingestion' = [ingestion EXCEPT !.check = "done"]
    /\ agent_log' = Append(agent_log, "check_extraction")
    /\ node' = "comparator"
    /\ UNCHANGED <<master_dims, pc, cmpWork>>
    /\ UNCHANGED <<reflexion_count, crop_region, findings>>
    /\ UNCHANGED <<revVars, ingVars, bindVars>>

\* run_ingestor raises for the check drawing: "except Exception" sets ms = {}
\* and the node returns
CheckIngestFails ==
    /\ node = "check_ingestor"
    /\ ingestion.check = "running"
    /\ check_dims' = <<>>
    /\ ingestion' = [ingestion EXCEPT !.check = "failed"]
    /\ agent_log' = Append(agent_log, "check_extraction")
    /\ node' = "comparator"
    /\ UNCHANGED <<master_dims, pc, cmpWork>>
    /\ UNCHANGED <<reflexion_count, crop_region, findings>>
    /\ UNCHANGED <<revVars, ingVars, bindVars>>

\* comparator_node awaits run_comparator on the two machine states
ComparatorNode ==
    /\ node = "comparator"
    /\ pc = "idle"
    /\ pc' = "phase1"
    /\ UNCHANGED <<master_dims, check_dims, cmpWork>>
    /\ UNCHANGED <<revVars, ingVars, graphVars, bindVars>>

\* run_comparator has returned; the edge leads to sherlock
ComparatorReturns ==
    /\ node = "comparator"
    /\ pc = "done"
    /\ node' = "sherlock"
    /\ UNCHANGED <<ingestion, reflexion_count, crop_region, findings, agent_log>>
    /\ UNCHANGED <<cmpVars, revVars, ingVars, bindVars>>

\* sherlock_node of the comparison graph, then the reporter, then END
CompareSherlockNode ==
    /\ node = "sherlock"
    /\ pc = "done"
    /\ agent_log' = Append(agent_log, "cross_verification")
    /\ node' = "reporter"
    /\ UNCHANGED <<ingestion, reflexion_count, crop_region, findings>>
    /\ UNCHANGED <<cmpVars, revVars, ingVars, bindVars>>

CompareReporterNode ==
    /\ node = "reporter"
    /\ pc = "done"
    /\ agent_log' = Append(agent_log, "comparison_report")
    /\ node' = "end"
    /\ UNCHANGED <<ingestion, reflexion_count, crop_region, findings>>
    /\ UNCHANGED <<cmpVars, revVars, ingVars, bindVars>>

NextCompare ==
    \/ MasterCached
    \/ MasterIngestStarts
    \/ MasterIngestReturns
    \/ MasterIngestRaises
    \/ CheckFileMissing
    \/ CheckIngestStarts
    \/ CheckIngestReturns
    \/ CheckIngestFails
    \/ ComparatorNode
    \/ NextCmp
    \/ ComparatorReturns
    \/ CompareSherlockNode
    \/ CompareReporterNode

InitCompare ==
    /\ \E cached \in SeqsUpTo(MasterDimSet, MaxGraphDims) : CompareStart(cached)
    /\ RevIdle
    /\ IngIdle
    /\ BindIdle

SpecCompare == InitCompare /\ [][NextCompare]_vars

\* C21: when the ingestion of the master or of the check drawing fails, the
\* pair is aborted: run_comparator is not run and there are no comparison
\* items and no summary.
C21_FailedIngestionAbortsPair ==
    (ingestion.master = "raised" \/ ingestion.check = "failed") =>
        /\ pc = "idle"
        /\ comparisons = <<>>
        /\ summary = EmptySummary

\* C22: the two ingestions run concurrently: while run_ingestor works on the
\* master drawing, the ingestion of the check drawing has been started.
C22_IngestionConcurrent ==
    ingestion.master = "running" => ingestion.check # "pending"

====
